---- MODULE Spec2Model ----
(***************************************************************************)
(* pw_async2 once_sender.h: OnceSender / OnceReceiver (one-shot by-value   *)
(* transfer) and OnceRefSender / OnceRefReceiver (one-shot by-reference    *)
(* mutation).                                                              *)
(*                                                                         *)
(* Objects live at addresses.  Every member function takes                 *)
(* sender_receiver_lock() with a std::lock_guard for its whole body, so a  *)
(* member function is one atomic step; the factories run on one thread     *)
(* and publish the pair only when they return, so a factory is one step    *)
(* made of the member functions it calls.                                  *)
(*                                                                         *)
(* The member functions are operators from a heap to a heap; the actions   *)
(* apply them to the current heap and record the history the properties    *)
(* speak about.  Pairs share nothing but the lock: the model follows one   *)
(* pair, of either kind, through moves, sends, polls and destructions.     *)
(* An object's `endpoint` is history: TRUE for the pair's sender and       *)
(* receiver, FALSE for an object they were moved out of.                   *)
(***************************************************************************)
EXTENDS Integers, FiniteSets, Sequences, TLC

\* ------------------------------------------------------------------ bounds
\* Addresses available to the callers for each kind of endpoint.
NumSlots == 2
\* The payload type T has the values 0..MaxVal; senders send 1..MaxVal.
MaxVal == 2
\* How often the initializers are applied to objects that are in use.
MaxInits == 1

\* ------------------------------------------------------------- addresses
\* nullptr
Null == 0
\* Caller-visible addresses.
Slots == 1..NumSlots
\* The address of the factory's local `sender` / `receiver`.
Local == NumSlots + 1
Addrs == 1..Local
\* The address of the caller's target buffer (T& value).
Buffer == 1

\* ---------------------------------------------------------------- Waker
\* A default-constructed, moved-from or consumed Waker.
EmptyWaker == 0
\* The waker the pair is made with: the handle of the receiving task.
TaskWaker == 1
WakerIsEmpty(w) == w = EmptyWaker

\* ----------------------------------------------------------- std::optional<T>
\* value_ of OnceReceiver: nullopt, or engaged with a T.  A T that has been
\* moved from is still a T: MovedFrom stands for its unspecified content.
NullOpt == 0 - 1
MovedFrom == MaxVal + 1
Payloads == 1..MaxVal
HasValue(opt) == opt # NullOpt

\* ------------------------------------------------------------ Poll<Result<T>>
Pending == [k |-> "Pending", v |-> 0]
ReadyOk(v) == [k |-> "Ok", v |-> v]
ReadyCancelled == [k |-> "Cancelled", v |-> 0]
NoResult == [k |-> "-", v |-> 0]

\* --------------------------------------------------------------- objects
\* Storage holding no object.
NoSender == [live |-> FALSE, receiver_ |-> Null, endpoint |-> FALSE]
NoReceiver ==
    [live |-> FALSE, sender_ |-> Null, value_ |-> NullOpt,
     waker_ |-> EmptyWaker, endpoint |-> FALSE]
NoRefSender == [live |-> FALSE, receiver_ |-> Null, endpoint |-> FALSE]
NoRefReceiver ==
    [live |-> FALSE, sender_ |-> Null, value_ |-> Null, cancelled_ |-> FALSE,
     waker_ |-> EmptyWaker, endpoint |-> FALSE]

VARIABLES
    snd,        \* OnceSender objects by address: receiver_
    rcv,        \* OnceReceiver objects by address: sender_, value_, waker_
    rsnd,       \* OnceRefSender objects by address: receiver_
    rrcv,       \* OnceRefReceiver objects by address: sender_, value_, cancelled_, waker_
    buf,        \* the callers' target buffers
    wakes,      \* how often the dispatcher was told to wake the receiving task
    calls,      \* how often Wake() was invoked on a receiver's waker_
    uaf,        \* a member function dereferenced a link to storage holding no object
    made,       \* the pair has been made
    delivered,  \* history: a send / Set / Commit took effect
    sentVal,    \* history: the value that send / Set stored
    dropped,    \* history: the sender was destroyed while still linked
    polled,     \* history: the pair's receiver was polled since the terminal event
    abandoned,  \* history: the receiver was destroyed while still linked
    modified,   \* history: a ModifyUnsafe ran its callback on the target
    composed,   \* history: the callbacks so far, composed, applied to the initial target
    last,       \* history: the last operation and what it returned
    lock,       \* sender_receiver_lock(): the thread holding it, or NoThread
    thr,        \* per thread: the call in progress, its statements still to run
    settled,    \* history: the lock was released after the terminal event
    served,     \* dispatcher: the wake-ups of the receiving task it has served
    inits       \* how often an initializer was applied to objects in use

heapVars == <<snd, rcv, rsnd, rrcv, buf, wakes, calls, uaf>>
histVars == <<made, delivered, sentVal, dropped, polled, abandoned, modified,
              composed, last>>
lockVars == <<lock, thr, settled, served, inits>>
vars == <<snd, rcv, rsnd, rrcv, buf, wakes, calls, uaf,
          made, delivered, sentVal, dropped, polled, abandoned, modified,
          composed, last, lock, thr, settled, served, inits>>

\* --------------------------------------------------------------- threads
\* The thread that makes the pair and keeps the sender, and the thread (the
\* dispatcher's, running the receiving task) that is handed the receiver.
Threads == {"S", "R"}
NoThread == "-"
\* A thread outside any call.
Idle ==
    [op |-> "-", todo |-> <<>>, res |-> NoResult, after |-> FALSE,
     before |-> FALSE, acq |-> 0]

\* The heap as one value, for the member functions to map.
Heap ==
    [snd |-> snd, rcv |-> rcv, rsnd |-> rsnd, rrcv |-> rrcv, buf |-> buf,
     wakes |-> wakes, calls |-> calls, uaf |-> uaf]

\* Dereferencing a link: undefined when the storage holds no object.
DerefReceiver(h, r) == IF h.rcv[r].live THEN h ELSE [h EXCEPT !.uaf = TRUE]
DerefSender(h, s) == IF h.snd[s].live THEN h ELSE [h EXCEPT !.uaf = TRUE]
DerefRefReceiver(h, r) == IF h.rrcv[r].live THEN h ELSE [h EXCEPT !.uaf = TRUE]
DerefRefSender(h, s) == IF h.rsnd[s].live THEN h ELSE [h EXCEPT !.uaf = TRUE]

\* std::move(receiver_->waker_).Wake(): a non-empty waker wakes its task and
\* is consumed; an empty one does nothing.
WakeReceiver(h, r) ==
    LET w == h.rcv[r].waker_
        h1 == [h EXCEPT !.calls = @ + 1]
    IN  IF WakerIsEmpty(w) THEN h1
        ELSE [h1 EXCEPT !.wakes = @ + 1, !.rcv[r].waker_ = EmptyWaker]

WakeRefReceiver(h, r) ==
    LET w == h.rrcv[r].waker_
        h1 == [h EXCEPT !.calls = @ + 1]
    IN  IF WakerIsEmpty(w) THEN h1
        ELSE [h1 EXCEPT !.wakes = @ + 1, !.rrcv[r].waker_ = EmptyWaker]

\* ================================================================ ValueChannel

\* OnceReceiver(Waker waker) : waker_(std::move(waker)), at address `this`.
ConstructReceiver(h, this, w) ==
    [h EXCEPT !.rcv[this] =
        [live |-> TRUE, sender_ |-> Null, value_ |-> NullOpt, waker_ |-> w,
         endpoint |-> TRUE]]

\* OnceSender(OnceReceiver<T>* receiver) : receiver_(receiver), at `this`.
ConstructSender(h, this, r) ==
    [h EXCEPT !.snd[this] =
        [live |-> TRUE, receiver_ |-> r, endpoint |-> TRUE]]

\* Mutant: the move constructor without `other.receiver_ = nullptr`.
MoveSenderKeepsSource(h, other, this) ==
    LET r  == h.snd[other].receiver_
        h1 == [h EXCEPT
                 !.snd[this] = [live |-> TRUE, receiver_ |-> r,
                                endpoint |-> h.snd[other].endpoint],
                 !.snd[other].endpoint = FALSE]
    IN  IF r # Null
        THEN [DerefReceiver(h1, r) EXCEPT !.rcv[r].sender_ = this]
        ELSE h1

\* Mutant: the move constructor without `receiver_->sender_ = this`.
MoveSenderNoFixup(h, other, this) ==
    [h EXCEPT
       !.snd[this] = [live |-> TRUE, receiver_ |-> h.snd[other].receiver_,
                      endpoint |-> h.snd[other].endpoint],
       !.snd[other].receiver_ = Null,
       !.snd[other].endpoint = FALSE]

\* OnceSender(OnceSender&& other), constructing at `this`.
MoveSender(h, other, this) ==
    LET r  == h.snd[other].receiver_
        h1 == [h EXCEPT
                 !.snd[this] = [live |-> TRUE, receiver_ |-> r,
                                endpoint |-> h.snd[other].endpoint],
                 !.snd[other].receiver_ = Null,
                 !.snd[other].endpoint = FALSE]
    IN  IF r # Null
        THEN [DerefReceiver(h1, r) EXCEPT !.rcv[r].sender_ = this]
        ELSE h1

\* Mutant: the move constructor without the value_.emplace(...) of other's
\* value.
MoveReceiverDropsValue(h, other, this) ==
    LET s  == h.rcv[other].sender_
        h1 == [h EXCEPT
                 !.rcv[this] = [live |-> TRUE, sender_ |-> s,
                                value_ |-> NullOpt,
                                waker_ |-> h.rcv[other].waker_,
                                endpoint |-> h.rcv[other].endpoint],
                 !.rcv[other].sender_ = Null,
                 !.rcv[other].value_ = NullOpt,
                 !.rcv[other].waker_ = EmptyWaker,
                 !.rcv[other].endpoint = FALSE]
    IN  IF s # Null
        THEN [DerefSender(h1, s) EXCEPT !.snd[s].receiver_ = this]
        ELSE h1

\* Mutant: the move constructor without `sender_->receiver_ = this`.
MoveReceiverNoFixup(h, other, this) ==
    [h EXCEPT
       !.rcv[this] = [live |-> TRUE, sender_ |-> h.rcv[other].sender_,
                      value_ |-> h.rcv[other].value_,
                      waker_ |-> h.rcv[other].waker_,
                      endpoint |-> h.rcv[other].endpoint],
       !.rcv[other].sender_ = Null,
       !.rcv[other].value_ = NullOpt,
       !.rcv[other].waker_ = EmptyWaker,
       !.rcv[other].endpoint = FALSE]

\* Mutant: the move constructor without `other.value_.reset()`.
MoveReceiverKeepsValue(h, other, this) ==
    LET s  == h.rcv[other].sender_
        h1 == [h EXCEPT
                 !.rcv[this] = [live |-> TRUE, sender_ |-> s,
                                value_ |-> h.rcv[other].value_,
                                waker_ |-> h.rcv[other].waker_,
                                endpoint |-> h.rcv[other].endpoint],
                 !.rcv[other].sender_ = Null,
                 !.rcv[other].waker_ = EmptyWaker,
                 !.rcv[other].endpoint = FALSE]
    IN  IF s # Null
        THEN [DerefSender(h1, s) EXCEPT !.snd[s].receiver_ = this]
        ELSE h1

\* OnceReceiver(OnceReceiver&& other), constructing at `this`.
MoveReceiver(h, other, this) ==
    LET s  == h.rcv[other].sender_
        h1 == [h EXCEPT
                 !.rcv[this] = [live |-> TRUE, sender_ |-> s,
                                value_ |-> h.rcv[other].value_,
                                waker_ |-> h.rcv[other].waker_,
                                endpoint |-> h.rcv[other].endpoint],
                 !.rcv[other].sender_ = Null,
                 !.rcv[other].value_ = NullOpt,
                 !.rcv[other].waker_ = EmptyWaker,
                 !.rcv[other].endpoint = FALSE]
    IN  IF s # Null
        THEN [DerefSender(h1, s) EXCEPT !.snd[s].receiver_ = this]
        ELSE h1

\* Mutant: emplace without `receiver_ = nullptr`.
EmplaceKeepsLink(h, s, v) ==
    LET r == h.snd[s].receiver_
    IN  IF r # Null
        THEN LET h1 == [DerefReceiver(h, r) EXCEPT !.rcv[r].value_ = v]
                 h2 == WakeReceiver(h1, r)
             IN  [h2 EXCEPT !.rcv[r].sender_ = Null]
        ELSE h

\* Mutant: emplace without `receiver_->sender_ = nullptr`.
EmplaceKeepsBackLink(h, s, v) ==
    LET r == h.snd[s].receiver_
    IN  IF r # Null
        THEN LET h1 == [DerefReceiver(h, r) EXCEPT !.rcv[r].value_ = v]
                 h2 == WakeReceiver(h1, r)
             IN  [h2 EXCEPT !.snd[s].receiver_ = Null]
        ELSE h

\* OnceSender::emplace(args...); operator=(const T&) and operator=(T&&) call it.
Emplace(h, s, v) ==
    LET r == h.snd[s].receiver_
    IN  IF r # Null
        THEN LET h1 == [DerefReceiver(h, r) EXCEPT !.rcv[r].value_ = v]
                 h2 == WakeReceiver(h1, r)
             IN  [h2 EXCEPT !.rcv[r].sender_ = Null, !.snd[s].receiver_ = Null]
        ELSE h

\* Mutant: the destructor without `receiver_->sender_ = nullptr`.
DestroySenderKeepsBackLink(h, s) ==
    LET r  == h.snd[s].receiver_
        h1 == IF r # Null THEN WakeReceiver(DerefReceiver(h, r), r) ELSE h
    IN  [h1 EXCEPT !.snd[s] = NoSender]

\* ~OnceSender(); the storage then holds no object.
DestroySender(h, s) ==
    LET r  == h.snd[s].receiver_
        h1 == IF r # Null
              THEN [WakeReceiver(DerefReceiver(h, r), r) EXCEPT
                      !.rcv[r].sender_ = Null]
              ELSE h
    IN  [h1 EXCEPT !.snd[s] = NoSender]

\* Mutant: the destructor without `sender_->receiver_ = nullptr`.
DestroyReceiverKeepsLink(h, r) == [h EXCEPT !.rcv[r] = NoReceiver]

\* ~OnceReceiver(); the storage then holds no object.
DestroyReceiver(h, r) ==
    LET s  == h.rcv[r].sender_
        h1 == IF s # Null
              THEN [DerefSender(h, s) EXCEPT !.snd[s].receiver_ = Null]
              ELSE h
    IN  [h1 EXCEPT !.rcv[r] = NoReceiver]

\* Mutant: Pend with the test of sender_ inverted.
PendResultInverted(h, r) ==
    IF HasValue(h.rcv[r].value_) THEN ReadyOk(h.rcv[r].value_)
    ELSE IF h.rcv[r].sender_ # Null THEN ReadyCancelled
    ELSE Pending

\* Mutant: Pend testing sender_ before value_.
PendResultLinkFirst(h, r) ==
    IF h.rcv[r].sender_ = Null THEN ReadyCancelled
    ELSE IF HasValue(h.rcv[r].value_) THEN ReadyOk(h.rcv[r].value_)
    ELSE Pending

\* What OnceReceiver::Pend() returns.
PendResult(h, r) ==
    IF HasValue(h.rcv[r].value_) THEN ReadyOk(h.rcv[r].value_)
    ELSE IF h.rcv[r].sender_ = Null THEN ReadyCancelled
    ELSE Pending

\* Mutant: Pend resetting value_ after returning its content.
PendTakesValue(h, r, trivial) ==
    IF HasValue(h.rcv[r].value_)
    THEN [h EXCEPT !.rcv[r].value_ = NullOpt]
    ELSE h

\* What OnceReceiver::Pend() leaves behind: Ready(std::move(*value_)) moves
\* from the T inside value_, which stays engaged.  A trivially movable T
\* keeps its content, another T is left with unspecified content.
Pend(h, r, trivial) ==
    IF HasValue(h.rcv[r].value_) /\ ~trivial
    THEN [h EXCEPT !.rcv[r].value_ = MovedFrom]
    ELSE h

\* MakeOnceSenderAndReceiver(waker): the pair's members end up at s and r.
MakeOnceSenderAndReceiver(h, s, r, w) ==
    LET h1 == ConstructReceiver(h, Local, w)
        h2 == ConstructSender(h1, Local, Local)
        h3 == [h2 EXCEPT !.rcv[Local].sender_ = Local]
        h4 == MoveSender(h3, Local, s)
        h5 == MoveReceiver(h4, Local, r)
    IN  DestroyReceiver(DestroySender(h5, Local), Local)

\* OnceSender() = default, at address `this`: no pair's endpoint yet.
DefaultConstructSender(h, this) ==
    [h EXCEPT !.snd[this] =
        [live |-> TRUE, receiver_ |-> Null, endpoint |-> FALSE]]

\* OnceReceiver() = default, at address `this`.
DefaultConstructReceiver(h, this) ==
    [h EXCEPT !.rcv[this] =
        [live |-> TRUE, sender_ |-> Null, value_ |-> NullOpt,
         waker_ |-> EmptyWaker, endpoint |-> FALSE]]

\* Mutant: the initializer without `sender.receiver_ = &receiver`.
InitializeOnceSenderAndReceiverHalf(h, s, r, w) ==
    [h EXCEPT !.rcv[r].sender_ = s,
              !.rcv[r].waker_ = w,
              !.rcv[r].endpoint = TRUE,
              !.snd[s].endpoint = TRUE]

\* InitializeOnceSenderAndReceiver(sender, receiver, waker) on the objects at
\* s and r, which become the pair's endpoints; receiver.value_ is not
\* assigned.
InitializeOnceSenderAndReceiver(h, s, r, w) ==
    [h EXCEPT !.rcv[r].sender_ = s,
              !.rcv[r].waker_ = w,
              !.snd[s].receiver_ = r,
              !.rcv[r].endpoint = TRUE,
              !.snd[s].endpoint = TRUE]

\* ================================================================== RefChannel

\* T values of the target buffers, and the modifications ModifyUnsafe's
\* callback may make: func k adds k, wrapping around.
BufVals == 0..MaxVal
Funcs == 1..MaxVal
ApplyFunc(k, x) == (x + k) % (MaxVal + 1)

\* *(receiver_->value_) = x: undefined through a null value_.
StoreTarget(h, r, x) ==
    IF h.rrcv[r].value_ = Buffer THEN [h EXCEPT !.buf = x]
    ELSE [h EXCEPT !.uaf = TRUE]

\* OnceRefReceiver(T& value, Waker waker) : value_(&value), waker_(...).
ConstructRefReceiver(h, this, b, w) ==
    [h EXCEPT !.rrcv[this] =
        [live |-> TRUE, sender_ |-> Null, value_ |-> b, cancelled_ |-> FALSE,
         waker_ |-> w, endpoint |-> TRUE]]

\* OnceRefSender(OnceRefReceiver<T>* receiver) : receiver_(receiver).
ConstructRefSender(h, this, r) ==
    [h EXCEPT !.rsnd[this] =
        [live |-> TRUE, receiver_ |-> r, endpoint |-> TRUE]]

\* Mutant: the move constructor without `receiver_->sender_ = this`.
MoveRefSenderNoFixup(h, other, this) ==
    [h EXCEPT
       !.rsnd[this] = [live |-> TRUE, receiver_ |-> h.rsnd[other].receiver_,
                       endpoint |-> h.rsnd[other].endpoint],
       !.rsnd[other].receiver_ = Null,
       !.rsnd[other].endpoint = FALSE]

\* Mutant: the move constructor without `other.receiver_ = nullptr`.
MoveRefSenderKeepsSource(h, other, this) ==
    LET r  == h.rsnd[other].receiver_
        h1 == [h EXCEPT
                 !.rsnd[this] = [live |-> TRUE, receiver_ |-> r,
                                 endpoint |-> h.rsnd[other].endpoint],
                 !.rsnd[other].endpoint = FALSE]
    IN  IF r # Null
        THEN [DerefRefReceiver(h1, r) EXCEPT !.rrcv[r].sender_ = this]
        ELSE h1

\* OnceRefSender(OnceRefSender&& other), constructing at `this`.
MoveRefSender(h, other, this) ==
    LET r  == h.rsnd[other].receiver_
        h1 == [h EXCEPT
                 !.rsnd[this] = [live |-> TRUE, receiver_ |-> r,
                                 endpoint |-> h.rsnd[other].endpoint],
                 !.rsnd[other].receiver_ = Null,
                 !.rsnd[other].endpoint = FALSE]
    IN  IF r # Null
        THEN [DerefRefReceiver(h1, r) EXCEPT !.rrcv[r].sender_ = this]
        ELSE h1

\* Mutant: the move constructor without `cancelled_ = other.cancelled_`.
MoveRefReceiverDropsCancelled(h, other, this) ==
    LET s  == h.rrcv[other].sender_
        h1 == [h EXCEPT
                 !.rrcv[this] = [live |-> TRUE, sender_ |-> s,
                                 value_ |-> h.rrcv[other].value_,
                                 cancelled_ |-> FALSE,
                                 waker_ |-> h.rrcv[other].waker_,
                                 endpoint |-> h.rrcv[other].endpoint],
                 !.rrcv[other].sender_ = Null,
                 !.rrcv[other].waker_ = EmptyWaker,
                 !.rrcv[other].endpoint = FALSE]
    IN  IF s # Null
        THEN [DerefRefSender(h1, s) EXCEPT !.rsnd[s].receiver_ = this]
        ELSE h1

\* OnceRefReceiver(OnceRefReceiver&& other), constructing at `this`:
\* value_ and cancelled_ are copied, other keeps its own.
MoveRefReceiver(h, other, this) ==
    LET s  == h.rrcv[other].sender_
        h1 == [h EXCEPT
                 !.rrcv[this] = [live |-> TRUE, sender_ |-> s,
                                 value_ |-> h.rrcv[other].value_,
                                 cancelled_ |-> h.rrcv[other].cancelled_,
                                 waker_ |-> h.rrcv[other].waker_,
                                 endpoint |-> h.rrcv[other].endpoint],
                 !.rrcv[other].sender_ = Null,
                 !.rrcv[other].waker_ = EmptyWaker,
                 !.rrcv[other].endpoint = FALSE]
    IN  IF s # Null
        THEN [DerefRefSender(h1, s) EXCEPT !.rsnd[s].receiver_ = this]
        ELSE h1

\* Mutant: Set without `receiver_ = nullptr`.
SetKeepsLink(h, s, v) ==
    LET r == h.rsnd[s].receiver_
    IN  IF r # Null
        THEN LET h1 == StoreTarget(DerefRefReceiver(h, r), r, v)
                 h2 == WakeRefReceiver(h1, r)
             IN  [h2 EXCEPT !.rrcv[r].sender_ = Null]
        ELSE h

\* Mutant: Set without `std::move(receiver_->waker_).Wake()`.
SetWithoutWake(h, s, v) ==
    LET r == h.rsnd[s].receiver_
    IN  IF r # Null
        THEN LET h1 == StoreTarget(DerefRefReceiver(h, r), r, v)
             IN  [h1 EXCEPT !.rrcv[r].sender_ = Null, !.rsnd[s].receiver_ = Null]
        ELSE h

\* OnceRefSender::Set(const T&) and Set(T&&).
Set(h, s, v) ==
    LET r == h.rsnd[s].receiver_
    IN  IF r # Null
        THEN LET h1 == StoreTarget(DerefRefReceiver(h, r), r, v)
                 h2 == WakeRefReceiver(h1, r)
             IN  [h2 EXCEPT !.rrcv[r].sender_ = Null, !.rsnd[s].receiver_ = Null]
        ELSE h

\* Mutant: ModifyUnsafe firing the waker as Commit does.
ModifyUnsafeWakes(h, s, k) ==
    LET r == h.rsnd[s].receiver_
    IN  IF r # Null
        THEN WakeRefReceiver(
                 StoreTarget(DerefRefReceiver(h, r), r, ApplyFunc(k, h.buf)), r)
        ELSE h

\* OnceRefSender::ModifyUnsafe(func), func not re-entering the API.
ModifyUnsafe(h, s, k) ==
    LET r == h.rsnd[s].receiver_
    IN  IF r # Null
        THEN StoreTarget(DerefRefReceiver(h, r), r, ApplyFunc(k, h.buf))
        ELSE h

\* Mutant: Commit without `std::move(receiver_->waker_).Wake()`.
CommitWithoutWake(h, s) ==
    LET r == h.rsnd[s].receiver_
    IN  IF r # Null
        THEN [DerefRefReceiver(h, r) EXCEPT
                !.rrcv[r].sender_ = Null, !.rsnd[s].receiver_ = Null]
        ELSE h

\* Mutant: Commit without `receiver_ = nullptr`.
CommitKeepsLink(h, s) ==
    LET r == h.rsnd[s].receiver_
    IN  IF r # Null
        THEN [WakeRefReceiver(DerefRefReceiver(h, r), r) EXCEPT
                !.rrcv[r].sender_ = Null]
        ELSE h

\* OnceRefSender::Commit().
Commit(h, s) ==
    LET r == h.rsnd[s].receiver_
    IN  IF r # Null
        THEN [WakeRefReceiver(DerefRefReceiver(h, r), r) EXCEPT
                !.rrcv[r].sender_ = Null, !.rsnd[s].receiver_ = Null]
        ELSE h

\* Mutant: the destructor without `receiver_->cancelled_ = true`.
DestroyRefSenderNoCancel(h, s) ==
    LET r  == h.rsnd[s].receiver_
        h1 == IF r # Null
              THEN LET g == [DerefRefReceiver(h, r) EXCEPT !.rrcv[r].sender_ = Null]
                   IN  IF ~WakerIsEmpty(g.rrcv[r].waker_)
                       THEN WakeRefReceiver(g, r)
                       ELSE g
              ELSE h
    IN  [h1 EXCEPT !.rsnd[s] = NoRefSender]

\* ~OnceRefSender(); the storage then holds no object.
DestroyRefSender(h, s) ==
    LET r  == h.rsnd[s].receiver_
        h1 == IF r # Null
              THEN LET g == [DerefRefReceiver(h, r) EXCEPT !.rrcv[r].sender_ = Null]
                   IN  IF ~WakerIsEmpty(g.rrcv[r].waker_)
                       THEN WakeRefReceiver(
                                [g EXCEPT !.rrcv[r].cancelled_ = TRUE], r)
                       ELSE g
              ELSE h
    IN  [h1 EXCEPT !.rsnd[s] = NoRefSender]

\* Mutant: the destructor without `sender_->receiver_ = nullptr`.
DestroyRefReceiverKeepsLink(h, r) == [h EXCEPT !.rrcv[r] = NoRefReceiver]

\* ~OnceRefReceiver(); the storage then holds no object.
DestroyRefReceiver(h, r) ==
    LET s  == h.rrcv[r].sender_
        h1 == IF s # Null
              THEN [DerefRefSender(h, s) EXCEPT !.rsnd[s].receiver_ = Null]
              ELSE h
    IN  [h1 EXCEPT !.rrcv[r] = NoRefReceiver]

\* Mutant: Pend testing waker_.IsEmpty() before cancelled_.
RefPendResultWakerFirst(h, r) ==
    IF WakerIsEmpty(h.rrcv[r].waker_) THEN ReadyOk(0)
    ELSE IF h.rrcv[r].cancelled_ THEN ReadyCancelled
    ELSE Pending

\* OnceRefReceiver::Pend(): Poll<Status>; it changes nothing.
RefPendResult(h, r) ==
    IF h.rrcv[r].cancelled_ THEN ReadyCancelled
    ELSE IF WakerIsEmpty(h.rrcv[r].waker_) THEN ReadyOk(0)
    ELSE Pending

\* Mutant: the factory constructing the local sender with nullptr instead of
\* &receiver.
MakeOnceRefSenderAndReceiverUnlinked(h, s, r, b, w) ==
    LET h1 == ConstructRefReceiver(h, Local, b, w)
        h2 == ConstructRefSender(h1, Local, Null)
        h3 == MoveRefSender(h2, Local, s)
        h4 == MoveRefReceiver(h3, Local, r)
    IN  DestroyRefReceiver(DestroyRefSender(h4, Local), Local)

\* MakeOnceRefSenderAndReceiver(value, waker): the local receiver's sender_
\* is first set by the move of the local sender into the pair.
MakeOnceRefSenderAndReceiver(h, s, r, b, w) ==
    LET h1 == ConstructRefReceiver(h, Local, b, w)
        h2 == ConstructRefSender(h1, Local, Local)
        h3 == MoveRefSender(h2, Local, s)
        h4 == MoveRefReceiver(h3, Local, r)
    IN  DestroyRefReceiver(DestroyRefSender(h4, Local), Local)

\* OnceRefSender() = default, at address `this`.
DefaultConstructRefSender(h, this) ==
    [h EXCEPT !.rsnd[this] =
        [live |-> TRUE, receiver_ |-> Null, endpoint |-> FALSE]]

\* OnceRefReceiver() = default, at address `this`.
DefaultConstructRefReceiver(h, this) ==
    [h EXCEPT !.rrcv[this] =
        [live |-> TRUE, sender_ |-> Null, value_ |-> Null,
         cancelled_ |-> FALSE, waker_ |-> EmptyWaker, endpoint |-> FALSE]]

\* InitializeOnceRefSenderAndReceiver(sender, receiver, value, waker) on the
\* objects at s and r.
InitializeOnceRefSenderAndReceiver(h, s, r, b, w) ==
    [h EXCEPT !.rrcv[r].sender_ = s,
              !.rrcv[r].value_ = b,
              !.rrcv[r].cancelled_ = FALSE,
              !.rrcv[r].waker_ = w,
              !.rsnd[s].receiver_ = r,
              !.rrcv[r].endpoint = TRUE,
              !.rsnd[s].endpoint = TRUE]

\* ===================================================================== actions

Init ==
    /\ snd = [a \in Addrs |-> NoSender]
    /\ rcv = [a \in Addrs |-> NoReceiver]
    /\ rsnd = [a \in Addrs |-> NoRefSender]
    /\ rrcv = [a \in Addrs |-> NoRefReceiver]
    /\ buf = 0
    /\ wakes = 0
    /\ calls = 0
    /\ uaf = FALSE
    /\ made = FALSE
    /\ delivered = FALSE
    /\ sentVal = 0
    /\ dropped = FALSE
    /\ polled = FALSE
    /\ abandoned = FALSE
    /\ modified = FALSE
    /\ composed = 0
    /\ last = [op |-> "Init", ep |-> FALSE, linked |-> FALSE, arg |-> 0,
               first |-> FALSE, res |-> NoResult]
    /\ lock = NoThread
    /\ thr = [t \in Threads |-> Idle]
    /\ settled = FALSE
    /\ served = 0
    /\ inits = 0

\* The heap after the step.
HeapBecomes(h) ==
    /\ snd' = h.snd
    /\ rcv' = h.rcv
    /\ rsnd' = h.rsnd
    /\ rrcv' = h.rrcv
    /\ buf' = h.buf
    /\ wakes' = h.wakes
    /\ calls' = h.calls
    /\ uaf' = h.uaf

\* The heap after a member function run as one step, lock taken and released.
Becomes(h) == HeapBecomes(h) /\ UNCHANGED lockVars

\* The step was operation op, with argument arg (0: none), on an object that
\* was an endpoint of the pair or not (ep), and linked to its peer or not when
\* the step began.
Did(op, ep, linked, arg) ==
    last' = [op |-> op, ep |-> ep, linked |-> linked, arg |-> arg,
             first |-> FALSE, res |-> NoResult]

\* The terminal event has happened.
Terminal == delivered \/ dropped

\* The step was a Pend returning res; `first`: the first Pend on the pair's
\* receiver since the terminal event.
DidPend(op, ep, linked, res) ==
    /\ last' = [op |-> op, ep |-> ep, linked |-> linked, arg |-> 0,
                first |-> (ep /\ Terminal /\ ~polled), res |-> res]
    /\ polled' = (polled \/ (ep /\ Terminal))

\* ---------------------------------------------------------- ValueChannel steps

\* auto [sender, receiver] = MakeOnceSenderAndReceiver<T>(std::move(waker))
MakeValuePair ==
    \E s \in Slots, r \in Slots :
        /\ ~made
        /\ Becomes(MakeOnceSenderAndReceiver(Heap, s, r, TaskWaker))
        /\ made' = TRUE
        /\ Did("Make", TRUE, FALSE, 0)
        /\ UNCHANGED <<delivered, sentVal, dropped, polled, abandoned,
                       modified, composed>>

\* OnceSender<T> sender; OnceReceiver<T> receiver;
\* InitializeOnceSenderAndReceiver<T>(sender, receiver, std::move(waker))
InitializeValuePair ==
    \E s \in Slots, r \in Slots :
        /\ ~made
        /\ Becomes(InitializeOnceSenderAndReceiver(
                       DefaultConstructReceiver(
                           DefaultConstructSender(Heap, s), r),
                       s, r, TaskWaker))
        /\ made' = TRUE
        /\ Did("Initialize", TRUE, FALSE, 0)
        /\ UNCHANGED <<delivered, sentVal, dropped, polled, abandoned,
                       modified, composed>>

\* OnceSender<T> moved(std::move(sender))
MoveSenderStep ==
    \E other \in Slots, this \in Slots :
        /\ snd[other].live /\ ~snd[this].live
        /\ Becomes(MoveSender(Heap, other, this))
        /\ Did("MoveSender", snd[other].endpoint, snd[other].receiver_ # Null, 0)
        /\ UNCHANGED <<made, delivered, sentVal, dropped, polled, abandoned,
                       modified, composed>>

\* OnceReceiver<T> moved(std::move(receiver))
MoveReceiverStep ==
    \E other \in Slots, this \in Slots :
        /\ rcv[other].live /\ ~rcv[this].live
        /\ Becomes(MoveReceiver(Heap, other, this))
        /\ Did("MoveReceiver", rcv[other].endpoint, rcv[other].sender_ # Null, 0)
        /\ UNCHANGED <<made, delivered, sentVal, dropped, polled, abandoned,
                       modified, composed>>

\* sender.emplace(v) / sender = v
EmplaceStep ==
    \E s \in Slots, v \in Payloads :
        /\ snd[s].live
        /\ Becomes(Emplace(Heap, s, v))
        /\ Did("emplace", snd[s].endpoint, snd[s].receiver_ # Null, v)
        /\ IF snd[s].receiver_ # Null
           THEN delivered' = TRUE /\ sentVal' = v
           ELSE UNCHANGED <<delivered, sentVal>>
        /\ UNCHANGED <<made, dropped, polled, abandoned,
                       modified, composed>>

\* the sender goes out of scope
DestroySenderStep ==
    \E s \in Slots :
        /\ snd[s].live
        /\ Becomes(DestroySender(Heap, s))
        /\ Did("~OnceSender", snd[s].endpoint, snd[s].receiver_ # Null, 0)
        /\ dropped' = (dropped \/ snd[s].receiver_ # Null)
        /\ UNCHANGED <<made, delivered, sentVal, polled, abandoned,
                       modified, composed>>

\* the receiver goes out of scope
DestroyReceiverStep ==
    \E r \in Slots :
        /\ rcv[r].live
        /\ Becomes(DestroyReceiver(Heap, r))
        /\ Did("~OnceReceiver", rcv[r].endpoint, rcv[r].sender_ # Null, 0)
        /\ abandoned' = (abandoned \/ rcv[r].sender_ # Null)
        /\ UNCHANGED <<made, delivered, sentVal, dropped, polled,
                       modified, composed>>

\* receiver.Pend()
PendStep ==
    \E r \in Slots, trivial \in BOOLEAN :
        /\ rcv[r].live
        /\ Becomes(Pend(Heap, r, trivial))
        /\ DidPend("Pend", rcv[r].endpoint, rcv[r].sender_ # Null,
                   PendResult(Heap, r))
        /\ UNCHANGED <<made, delivered, sentVal, dropped, abandoned,
                       modified, composed>>
\* ------------------------------------------------------------ RefChannel steps

\* auto [sender, receiver] = MakeOnceRefSenderAndReceiver<T>(value, std::move(waker))
MakeRefPair ==
    \E s \in Slots, r \in Slots :
        /\ ~made
        /\ Becomes(MakeOnceRefSenderAndReceiver(Heap, s, r, Buffer, TaskWaker))
        /\ made' = TRUE
        /\ Did("MakeRef", TRUE, FALSE, 0)
        /\ UNCHANGED <<delivered, sentVal, dropped, polled, abandoned,
                       modified, composed>>

\* OnceRefSender<T> sender; OnceRefReceiver<T> receiver;
\* InitializeOnceRefSenderAndReceiver<T>(sender, receiver, value, std::move(waker))
InitializeRefPair ==
    \E s \in Slots, r \in Slots :
        /\ ~made
        /\ Becomes(InitializeOnceRefSenderAndReceiver(
                       DefaultConstructRefReceiver(
                           DefaultConstructRefSender(Heap, s), r),
                       s, r, Buffer, TaskWaker))
        /\ made' = TRUE
        /\ Did("InitializeRef", TRUE, FALSE, 0)
        /\ UNCHANGED <<delivered, sentVal, dropped, polled, abandoned,
                       modified, composed>>

\* OnceRefSender<T> moved(std::move(sender))
MoveRefSenderStep ==
    \E other \in Slots, this \in Slots :
        /\ rsnd[other].live /\ ~rsnd[this].live
        /\ Becomes(MoveRefSender(Heap, other, this))
        /\ Did("MoveRefSender", rsnd[other].endpoint,
               rsnd[other].receiver_ # Null, 0)
        /\ UNCHANGED <<made, delivered, sentVal, dropped, polled, abandoned,
                       modified, composed>>

\* OnceRefReceiver<T> moved(std::move(receiver))
MoveRefReceiverStep ==
    \E other \in Slots, this \in Slots :
        /\ rrcv[other].live /\ ~rrcv[this].live
        /\ Becomes(MoveRefReceiver(Heap, other, this))
        /\ Did("MoveRefReceiver", rrcv[other].endpoint,
               rrcv[other].sender_ # Null, 0)
        /\ UNCHANGED <<made, delivered, sentVal, dropped, polled, abandoned,
                       modified, composed>>

\* sender.Set(v)
SetStep ==
    \E s \in Slots, v \in Payloads :
        /\ rsnd[s].live
        /\ Becomes(Set(Heap, s, v))
        /\ Did("Set", rsnd[s].endpoint, rsnd[s].receiver_ # Null, v)
        /\ IF rsnd[s].receiver_ # Null
           THEN delivered' = TRUE /\ sentVal' = v
           ELSE UNCHANGED <<delivered, sentVal>>
        /\ UNCHANGED <<made, dropped, polled, abandoned,
                       modified, composed>>

\* sender.ModifyUnsafe(func)
ModifyUnsafeStep ==
    \E s \in Slots, k \in Funcs :
        /\ rsnd[s].live
        /\ Becomes(ModifyUnsafe(Heap, s, k))
        /\ Did("ModifyUnsafe", rsnd[s].endpoint, rsnd[s].receiver_ # Null, k)
        /\ IF rsnd[s].receiver_ # Null
           THEN modified' = TRUE /\ composed' = ApplyFunc(k, composed)
           ELSE UNCHANGED <<modified, composed>>
        /\ UNCHANGED <<made, delivered, sentVal, dropped, polled, abandoned>>

\* sender.Commit()
CommitStep ==
    \E s \in Slots :
        /\ rsnd[s].live
        /\ Becomes(Commit(Heap, s))
        /\ Did("Commit", rsnd[s].endpoint, rsnd[s].receiver_ # Null, 0)
        /\ delivered' = (delivered \/ rsnd[s].receiver_ # Null)
        /\ UNCHANGED <<made, sentVal, dropped, polled, abandoned,
                       modified, composed>>

\* the sender goes out of scope
DestroyRefSenderStep ==
    \E s \in Slots :
        /\ rsnd[s].live
        /\ Becomes(DestroyRefSender(Heap, s))
        /\ Did("~OnceRefSender", rsnd[s].endpoint, rsnd[s].receiver_ # Null, 0)
        /\ dropped' = (dropped \/ rsnd[s].receiver_ # Null)
        /\ UNCHANGED <<made, delivered, sentVal, polled, abandoned,
                       modified, composed>>

\* the receiver goes out of scope
DestroyRefReceiverStep ==
    \E r \in Slots :
        /\ rrcv[r].live
        /\ Becomes(DestroyRefReceiver(Heap, r))
        /\ Did("~OnceRefReceiver", rrcv[r].endpoint, rrcv[r].sender_ # Null, 0)
        /\ abandoned' = (abandoned \/ rrcv[r].sender_ # Null)
        /\ UNCHANGED <<made, delivered, sentVal, dropped, polled,
                       modified, composed>>

\* receiver.Pend()
RefPendStep ==
    \E r \in Slots :
        /\ rrcv[r].live
        /\ Becomes(Heap)
        /\ DidPend("RefPend", rrcv[r].endpoint, rrcv[r].sender_ # Null,
                   RefPendResult(Heap, r))
        /\ UNCHANGED <<made, delivered, sentVal, dropped, abandoned,
                       modified, composed>>

Next ==
    \/ MakeValuePair
    \/ InitializeValuePair
    \/ MoveSenderStep
    \/ MoveReceiverStep
    \/ EmplaceStep
    \/ DestroySenderStep
    \/ DestroyReceiverStep
    \/ PendStep
    \/ MakeRefPair
    \/ InitializeRefPair
    \/ MoveRefSenderStep
    \/ MoveRefReceiverStep
    \/ SetStep
    \/ ModifyUnsafeStep
    \/ CommitStep
    \/ DestroyRefSenderStep
    \/ DestroyRefReceiverStep
    \/ RefPendStep

Spec == Init /\ [][Next]_vars

\* ------------------------------------------------------- the caller's waker
\* The Waker argument of the RefChannel factories is the caller's: a task's
\* waker, or a default-constructed, empty one.
Wakers == {EmptyWaker, TaskWaker}

\* auto [sender, receiver] = MakeOnceRefSenderAndReceiver<T>(value, std::move(waker))
MakeRefPairWith ==
    \E s \in Slots, r \in Slots, w \in Wakers :
        /\ ~made
        /\ Becomes(MakeOnceRefSenderAndReceiver(Heap, s, r, Buffer, w))
        /\ made' = TRUE
        /\ Did("MakeRef", TRUE, FALSE, w)
        /\ UNCHANGED <<delivered, sentVal, dropped, polled, abandoned,
                       modified, composed>>

\* OnceRefSender<T> sender; OnceRefReceiver<T> receiver;
\* InitializeOnceRefSenderAndReceiver<T>(sender, receiver, value, std::move(waker))
InitializeRefPairWith ==
    \E s \in Slots, r \in Slots, w \in Wakers :
        /\ ~made
        /\ Becomes(InitializeOnceRefSenderAndReceiver(
                       DefaultConstructRefReceiver(
                           DefaultConstructRefSender(Heap, s), r),
                       s, r, Buffer, w))
        /\ made' = TRUE
        /\ Did("InitializeRef", TRUE, FALSE, w)
        /\ UNCHANGED <<delivered, sentVal, dropped, polled, abandoned,
                       modified, composed>>

WakerNext ==
    \/ MakeRefPairWith
    \/ InitializeRefPairWith
    \/ MoveRefSenderStep
    \/ MoveRefReceiverStep
    \/ SetStep
    \/ ModifyUnsafeStep
    \/ CommitStep
    \/ DestroyRefSenderStep
    \/ DestroyRefReceiverStep
    \/ RefPendStep

WakerSpec == Init /\ [][WakerNext]_vars

\* ---------------------------------------------------------- re-initialization
\* The initializers take references to objects the caller owns, so they can
\* be applied to endpoints that are in use: to a pair again, or to an endpoint
\* together with another object of the peer's class.

\* The transfer that begins: no object is an endpoint of the pair yet, and
\* the wake-ups and Wake() calls are counted from here.
NewTransfer(h) ==
    [h EXCEPT
       !.snd = [a \in Addrs |-> [h.snd[a] EXCEPT !.endpoint = FALSE]],
       !.rcv = [a \in Addrs |-> [h.rcv[a] EXCEPT !.endpoint = FALSE]],
       !.rsnd = [a \in Addrs |-> [h.rsnd[a] EXCEPT !.endpoint = FALSE]],
       !.rrcv = [a \in Addrs |-> [h.rrcv[a] EXCEPT !.endpoint = FALSE]],
       !.wakes = 0,
       !.calls = 0]

\* The observations of the transfer that begins.
Fresh ==
    /\ inits < MaxInits
    /\ inits' = inits + 1
    /\ UNCHANGED <<lock, thr, settled, served>>
    /\ delivered' = FALSE
    /\ sentVal' = 0
    /\ dropped' = FALSE
    /\ polled' = FALSE
    /\ abandoned' = FALSE
    /\ modified' = FALSE
    /\ composed' = 0
    /\ UNCHANGED made

\* InitializeOnceSenderAndReceiver<T>(sender, receiver, std::move(waker)) on
\* a sender and a receiver that exist already.
ReinitializeValuePair ==
    \E s \in Slots, r \in Slots :
        /\ snd[s].live /\ rcv[r].live
        /\ HeapBecomes(InitializeOnceSenderAndReceiver(NewTransfer(Heap), s, r,
                                                       TaskWaker))
        /\ Did("Reinitialize", TRUE,
               snd[s].receiver_ # Null \/ rcv[r].sender_ # Null, r)
        /\ Fresh

\* InitializeOnceRefSenderAndReceiver<T>(sender, receiver, value,
\* std::move(waker)) on a sender and a receiver that exist already.
ReinitializeRefPair ==
    \E s \in Slots, r \in Slots :
        /\ rsnd[s].live /\ rrcv[r].live
        /\ HeapBecomes(InitializeOnceRefSenderAndReceiver(NewTransfer(Heap), s,
                                                          r, Buffer,
                                                          TaskWaker))
        /\ Did("ReinitializeRef", TRUE,
               rsnd[s].receiver_ # Null \/ rrcv[r].sender_ # Null, r)
        /\ Fresh

\* The operations that read or write what an initializer assigns: the links,
\* value_, cancelled_ and the waker (ModifyUnsafe writes the target only).
ReinitNext ==
    \/ MakeValuePair
    \/ InitializeValuePair
    \/ ReinitializeValuePair
    \/ MoveSenderStep
    \/ MoveReceiverStep
    \/ EmplaceStep
    \/ DestroySenderStep
    \/ DestroyReceiverStep
    \/ PendStep
    \/ MakeRefPair
    \/ InitializeRefPair
    \/ ReinitializeRefPair
    \/ MoveRefSenderStep
    \/ MoveRefReceiverStep
    \/ SetStep
    \/ CommitStep
    \/ DestroyRefSenderStep
    \/ DestroyRefReceiverStep
    \/ RefPendStep

ReinitSpec == Init /\ [][ReinitNext]_vars

\* ================================================================== statements
\* The same member functions statement by statement, for the threads that
\* run them at the same time.  A statement: the class c whose member function
\* it belongs to ("S" OnceSender, "R" OnceReceiver, "RS" OnceRefSender, "RR"
\* OnceRefReceiver, "-" none), its text a, the object x it runs on (`this`),
\* an operand y, and n: the statements a false `if`, or a `return`, skips.
St(c, a, x, y, n) == [c |-> c, a |-> a, x |-> x, y |-> y, n |-> n]

\* std::lock_guard lock(sender_receiver_lock()) and the end of its scope.
LockGuard == St("-", "lock", 0, 0, 0)
Unlock == St("-", "unlock", 0, 0, 0)

IsTest(st) == st.a \in {"if (receiver_)", "if (sender_)",
                        "if (other.value_.has_value())",
                        "if (value_.has_value())", "if (!sender_)",
                        "if (!receiver_->waker_.IsEmpty())",
                        "if (cancelled_)", "if (waker_.IsEmpty())"}

\* The condition of an `if`.
Cond(h, st) ==
    CASE st.a = "if (receiver_)" ->
            IF st.c = "S" THEN h.snd[st.x].receiver_ # Null
            ELSE h.rsnd[st.x].receiver_ # Null
      [] st.a = "if (sender_)" ->
            IF st.c = "R" THEN h.rcv[st.x].sender_ # Null
            ELSE h.rrcv[st.x].sender_ # Null
      [] st.a = "if (other.value_.has_value())" -> HasValue(h.rcv[st.y].value_)
      [] st.a = "if (value_.has_value())" -> HasValue(h.rcv[st.x].value_)
      [] st.a = "if (!sender_)" -> h.rcv[st.x].sender_ = Null
      [] st.a = "if (!receiver_->waker_.IsEmpty())" ->
            ~WakerIsEmpty(h.rrcv[h.rsnd[st.x].receiver_].waker_)
      [] st.a = "if (cancelled_)" -> h.rrcv[st.x].cancelled_
      [] st.a = "if (waker_.IsEmpty())" -> WakerIsEmpty(h.rrcv[st.x].waker_)
      [] OTHER -> TRUE

\* What a `return` of Pend returns.
Returned(h, st) ==
    CASE st.a = "return Ready(std::move(*value_))" -> ReadyOk(h.rcv[st.x].value_)
      [] st.a = "return Ready(Status::Cancelled())" -> ReadyCancelled
      [] st.a = "return Ready(OkStatus())" -> ReadyOk(0)
      [] st.a = "return Pending()" -> Pending
      [] OTHER -> NoResult

\* The heap after a statement of OnceSender (x: this, y: other or the value).
ExecSender(h, st) ==
    LET r == h.snd[st.x].receiver_
    IN  CASE st.a = "OnceSender()" -> DefaultConstructSender(h, st.x)
          [] st.a = "OnceSender(receiver)" -> ConstructSender(h, st.x, st.y)
          [] st.a = "receiver_ = other.receiver_" ->
                [h EXCEPT !.snd[st.x].receiver_ = h.snd[st.y].receiver_,
                          !.snd[st.x].endpoint = h.snd[st.y].endpoint,
                          !.snd[st.y].endpoint = FALSE]
          [] st.a = "other.receiver_ = nullptr" ->
                [h EXCEPT !.snd[st.y].receiver_ = Null]
          [] st.a = "receiver_->sender_ = this" ->
                [DerefReceiver(h, r) EXCEPT !.rcv[r].sender_ = st.x]
          [] st.a = "receiver_->value_.emplace(v)" ->
                [DerefReceiver(h, r) EXCEPT !.rcv[r].value_ = st.y]
          [] st.a = "receiver_->waker_.Wake()" ->
                WakeReceiver(DerefReceiver(h, r), r)
          [] st.a = "receiver_->sender_ = nullptr" ->
                [DerefReceiver(h, r) EXCEPT !.rcv[r].sender_ = Null]
          [] st.a = "receiver_ = nullptr" ->
                [h EXCEPT !.snd[st.x].receiver_ = Null]
          [] st.a = "sender.receiver_ = &receiver" ->
                [h EXCEPT !.snd[st.x].receiver_ = st.y,
                          !.snd[st.x].endpoint = TRUE]
          [] st.a = "~" -> [h EXCEPT !.snd[st.x] = NoSender]
          [] OTHER -> h

\* The heap after a statement of OnceReceiver (x: this, y: other, the
\* waker or the sender).
ExecReceiver(h, st) ==
    LET s == h.rcv[st.x].sender_
    IN  CASE st.a = "OnceReceiver()" -> DefaultConstructReceiver(h, st.x)
          [] st.a = "OnceReceiver(waker)" -> ConstructReceiver(h, st.x, st.y)
          [] st.a = "sender_ = other.sender_" ->
                [h EXCEPT !.rcv[st.x].sender_ = h.rcv[st.y].sender_,
                          !.rcv[st.x].endpoint = h.rcv[st.y].endpoint,
                          !.rcv[st.y].endpoint = FALSE]
          [] st.a = "other.sender_ = nullptr" ->
                [h EXCEPT !.rcv[st.y].sender_ = Null]
          [] st.a = "sender_->receiver_ = this" ->
                [DerefSender(h, s) EXCEPT !.snd[s].receiver_ = st.x]
          [] st.a = "value_.emplace(std::move(other.value_.value()))" ->
                [h EXCEPT !.rcv[st.x].value_ = h.rcv[st.y].value_]
          [] st.a = "other.value_.reset()" ->
                [h EXCEPT !.rcv[st.y].value_ = NullOpt]
          [] st.a = "waker_ = std::move(other.waker_)" ->
                [h EXCEPT !.rcv[st.x].waker_ = h.rcv[st.y].waker_,
                          !.rcv[st.y].waker_ = EmptyWaker]
          [] st.a = "sender_->receiver_ = nullptr" ->
                [DerefSender(h, s) EXCEPT !.snd[s].receiver_ = Null]
          [] st.a = "receiver.sender_ = &sender" ->
                [h EXCEPT !.rcv[st.x].sender_ = st.y,
                          !.rcv[st.x].endpoint = TRUE]
          [] st.a = "receiver.waker_ = std::move(waker)" ->
                [h EXCEPT !.rcv[st.x].waker_ = st.y]
          [] st.a = "~" -> [h EXCEPT !.rcv[st.x] = NoReceiver]
          [] OTHER -> h

\* The heap after a statement of OnceRefSender (x: this, y: other, the
\* value or the callback).
ExecRefSender(h, st) ==
    LET r == h.rsnd[st.x].receiver_
    IN  CASE st.a = "OnceRefSender()" -> DefaultConstructRefSender(h, st.x)
          [] st.a = "OnceRefSender(receiver)" -> ConstructRefSender(h, st.x, st.y)
          [] st.a = "receiver_ = other.receiver_" ->
                [h EXCEPT !.rsnd[st.x].receiver_ = h.rsnd[st.y].receiver_,
                          !.rsnd[st.x].endpoint = h.rsnd[st.y].endpoint,
                          !.rsnd[st.y].endpoint = FALSE]
          [] st.a = "other.receiver_ = nullptr" ->
                [h EXCEPT !.rsnd[st.y].receiver_ = Null]
          [] st.a = "receiver_->sender_ = this" ->
                [DerefRefReceiver(h, r) EXCEPT !.rrcv[r].sender_ = st.x]
          [] st.a = "*(receiver_->value_) = value" ->
                StoreTarget(DerefRefReceiver(h, r), r, st.y)
          [] st.a = "func(*(receiver_->value_))" ->
                StoreTarget(DerefRefReceiver(h, r), r, ApplyFunc(st.y, h.buf))
          [] st.a = "receiver_->waker_.Wake()" ->
                WakeRefReceiver(DerefRefReceiver(h, r), r)
          [] st.a = "receiver_->cancelled_ = true" ->
                [DerefRefReceiver(h, r) EXCEPT !.rrcv[r].cancelled_ = TRUE]
          [] st.a = "receiver_->sender_ = nullptr" ->
                [DerefRefReceiver(h, r) EXCEPT !.rrcv[r].sender_ = Null]
          [] st.a = "receiver_ = nullptr" ->
                [h EXCEPT !.rsnd[st.x].receiver_ = Null]
          [] st.a = "sender.receiver_ = &receiver" ->
                [h EXCEPT !.rsnd[st.x].receiver_ = st.y,
                          !.rsnd[st.x].endpoint = TRUE]
          [] st.a = "~" -> [h EXCEPT !.rsnd[st.x] = NoRefSender]
          [] OTHER -> h

\* The heap after a statement of OnceRefReceiver (x: this, y: other, the
\* waker, the target or the sender).
ExecRefReceiver(h, st) ==
    LET s == h.rrcv[st.x].sender_
    IN  CASE st.a = "OnceRefReceiver()" -> DefaultConstructRefReceiver(h, st.x)
          [] st.a = "OnceRefReceiver(value, waker)" ->
                ConstructRefReceiver(h, st.x, Buffer, st.y)
          [] st.a = "sender_ = other.sender_" ->
                [h EXCEPT !.rrcv[st.x].sender_ = h.rrcv[st.y].sender_,
                          !.rrcv[st.x].endpoint = h.rrcv[st.y].endpoint,
                          !.rrcv[st.y].endpoint = FALSE]
          [] st.a = "other.sender_ = nullptr" ->
                [h EXCEPT !.rrcv[st.y].sender_ = Null]
          [] st.a = "sender_->receiver_ = this" ->
                [DerefRefSender(h, s) EXCEPT !.rsnd[s].receiver_ = st.x]
          [] st.a = "value_ = other.value_" ->
                [h EXCEPT !.rrcv[st.x].value_ = h.rrcv[st.y].value_]
          [] st.a = "cancelled_ = other.cancelled_" ->
                [h EXCEPT !.rrcv[st.x].cancelled_ = h.rrcv[st.y].cancelled_]
          [] st.a = "waker_ = std::move(other.waker_)" ->
                [h EXCEPT !.rrcv[st.x].waker_ = h.rrcv[st.y].waker_,
                          !.rrcv[st.y].waker_ = EmptyWaker]
          [] st.a = "sender_->receiver_ = nullptr" ->
                [DerefRefSender(h, s) EXCEPT !.rsnd[s].receiver_ = Null]
          [] st.a = "receiver.sender_ = &sender" ->
                [h EXCEPT !.rrcv[st.x].sender_ = st.y,
                          !.rrcv[st.x].endpoint = TRUE]
          [] st.a = "receiver.value_ = &value" ->
                [h EXCEPT !.rrcv[st.x].value_ = st.y]
          [] st.a = "receiver.cancelled_ = false" ->
                [h EXCEPT !.rrcv[st.x].cancelled_ = FALSE]
          [] st.a = "receiver.waker_ = std::move(waker)" ->
                [h EXCEPT !.rrcv[st.x].waker_ = st.y]
          [] st.a = "~" -> [h EXCEPT !.rrcv[st.x] = NoRefReceiver]
          [] OTHER -> h

\* The heap after a statement.
Exec(h, st) ==
    CASE st.c = "S" -> ExecSender(h, st)
      [] st.c = "R" -> ExecReceiver(h, st)
      [] st.c = "RS" -> ExecRefSender(h, st)
      [] st.c = "RR" -> ExecRefReceiver(h, st)
      [] OTHER -> h

\* ---------------------------------------------------- the member functions
\* OnceSender(OnceSender&& other): `this` comes to life with its default
\* member initializers, then the body runs under the lock.
MoveSenderProg(other, this) ==
    << St("S", "OnceSender()", this, 0, 0),
       LockGuard,
       St("S", "receiver_ = other.receiver_", this, other, 0),
       St("S", "other.receiver_ = nullptr", this, other, 0),
       St("S", "if (receiver_)", this, 0, 1),
       St("S", "receiver_->sender_ = this", this, 0, 0),
       Unlock >>

\* OnceReceiver(OnceReceiver&& other)
MoveReceiverProg(other, this) ==
    << St("R", "OnceReceiver()", this, 0, 0),
       LockGuard,
       St("R", "sender_ = other.sender_", this, other, 0),
       St("R", "other.sender_ = nullptr", this, other, 0),
       St("R", "if (sender_)", this, 0, 1),
       St("R", "sender_->receiver_ = this", this, 0, 0),
       St("R", "if (other.value_.has_value())", this, other, 1),
       St("R", "value_.emplace(std::move(other.value_.value()))", this, other, 0),
       St("R", "other.value_.reset()", this, other, 0),
       St("R", "waker_ = std::move(other.waker_)", this, other, 0),
       Unlock >>

\* Mutant: emplace without `std::move(receiver_->waker_).Wake()`.
EmplaceProgNoWake(s, v) ==
    << LockGuard,
       St("S", "if (receiver_)", s, 0, 3),
       St("S", "receiver_->value_.emplace(v)", s, v, 0),
       St("S", "receiver_->sender_ = nullptr", s, 0, 0),
       St("S", "receiver_ = nullptr", s, 0, 0),
       Unlock >>

\* Mutant: emplace firing the waker before it stores the value.
EmplaceProgWakeFirst(s, v) ==
    << LockGuard,
       St("S", "if (receiver_)", s, 0, 4),
       St("S", "receiver_->waker_.Wake()", s, 0, 0),
       St("S", "receiver_->value_.emplace(v)", s, v, 0),
       St("S", "receiver_->sender_ = nullptr", s, 0, 0),
       St("S", "receiver_ = nullptr", s, 0, 0),
       Unlock >>

\* Mutant: emplace without `std::lock_guard lock(sender_receiver_lock())`.
EmplaceProgNoLock(s, v) ==
    << St("S", "if (receiver_)", s, 0, 4),
       St("S", "receiver_->value_.emplace(v)", s, v, 0),
       St("S", "receiver_->waker_.Wake()", s, 0, 0),
       St("S", "receiver_->sender_ = nullptr", s, 0, 0),
       St("S", "receiver_ = nullptr", s, 0, 0) >>

\* OnceSender::emplace(v)
EmplaceProg(s, v) ==
    << LockGuard,
       St("S", "if (receiver_)", s, 0, 4),
       St("S", "receiver_->value_.emplace(v)", s, v, 0),
       St("S", "receiver_->waker_.Wake()", s, 0, 0),
       St("S", "receiver_->sender_ = nullptr", s, 0, 0),
       St("S", "receiver_ = nullptr", s, 0, 0),
       Unlock >>

\* ~OnceSender(), then the end of the object's lifetime.
DestroySenderProg(s) ==
    << LockGuard,
       St("S", "if (receiver_)", s, 0, 2),
       St("S", "receiver_->waker_.Wake()", s, 0, 0),
       St("S", "receiver_->sender_ = nullptr", s, 0, 0),
       Unlock,
       St("S", "~", s, 0, 0) >>

\* ~OnceReceiver()
DestroyReceiverProg(r) ==
    << LockGuard,
       St("R", "if (sender_)", r, 0, 1),
       St("R", "sender_->receiver_ = nullptr", r, 0, 0),
       Unlock,
       St("R", "~", r, 0, 0) >>

\* Mutant: Pend unlocking by hand, and not on the first return.
PendProgLeaksLock(r) ==
    << LockGuard,
       St("R", "if (value_.has_value())", r, 0, 1),
       St("R", "return Ready(std::move(*value_))", r, 0, 4),
       St("R", "if (!sender_)", r, 0, 1),
       St("R", "return Ready(Status::Cancelled())", r, 0, 1),
       St("R", "return Pending()", r, 0, 0),
       Unlock >>

\* OnceReceiver::Pend(), T trivially movable.
PendProg(r) ==
    << LockGuard,
       St("R", "if (value_.has_value())", r, 0, 1),
       St("R", "return Ready(std::move(*value_))", r, 0, 3),
       St("R", "if (!sender_)", r, 0, 1),
       St("R", "return Ready(Status::Cancelled())", r, 0, 1),
       St("R", "return Pending()", r, 0, 0),
       Unlock >>

\* Mutant: the factory setting `receiver.sender_` without the lock_guard.
MakeProgNoLock(s, r, w) ==
    << St("R", "OnceReceiver(waker)", Local, w, 0),
       St("S", "OnceSender(receiver)", Local, Local, 0),
       St("R", "receiver.sender_ = &sender", Local, Local, 0) >>
    \o MoveSenderProg(Local, s) \o MoveReceiverProg(Local, r)
    \o DestroySenderProg(Local) \o DestroyReceiverProg(Local)

\* MakeOnceSenderAndReceiver(waker): the locals, the link set under the
\* lock, std::make_pair's two moves, the locals' destructors.
MakeProg(s, r, w) ==
    << St("R", "OnceReceiver(waker)", Local, w, 0),
       St("S", "OnceSender(receiver)", Local, Local, 0),
       LockGuard,
       St("R", "receiver.sender_ = &sender", Local, Local, 0),
       Unlock >>
    \o MoveSenderProg(Local, s) \o MoveReceiverProg(Local, r)
    \o DestroySenderProg(Local) \o DestroyReceiverProg(Local)

\* OnceSender<T> sender; OnceReceiver<T> receiver;
\* InitializeOnceSenderAndReceiver(sender, receiver, waker)
InitializeProg(s, r, w) ==
    << St("S", "OnceSender()", s, 0, 0),
       St("R", "OnceReceiver()", r, 0, 0),
       LockGuard,
       St("R", "receiver.sender_ = &sender", r, s, 0),
       St("R", "receiver.waker_ = std::move(waker)", r, w, 0),
       St("S", "sender.receiver_ = &receiver", s, r, 0),
       Unlock >>

\* OnceRefSender(OnceRefSender&& other)
MoveRefSenderProg(other, this) ==
    << St("RS", "OnceRefSender()", this, 0, 0),
       LockGuard,
       St("RS", "receiver_ = other.receiver_", this, other, 0),
       St("RS", "other.receiver_ = nullptr", this, other, 0),
       St("RS", "if (receiver_)", this, 0, 1),
       St("RS", "receiver_->sender_ = this", this, 0, 0),
       Unlock >>

\* OnceRefReceiver(OnceRefReceiver&& other)
MoveRefReceiverProg(other, this) ==
    << St("RR", "OnceRefReceiver()", this, 0, 0),
       LockGuard,
       St("RR", "sender_ = other.sender_", this, other, 0),
       St("RR", "other.sender_ = nullptr", this, other, 0),
       St("RR", "if (sender_)", this, 0, 1),
       St("RR", "sender_->receiver_ = this", this, 0, 0),
       St("RR", "value_ = other.value_", this, other, 0),
       St("RR", "cancelled_ = other.cancelled_", this, other, 0),
       St("RR", "waker_ = std::move(other.waker_)", this, other, 0),
       Unlock >>

\* OnceRefSender::Set(v)
SetProg(s, v) ==
    << LockGuard,
       St("RS", "if (receiver_)", s, 0, 4),
       St("RS", "*(receiver_->value_) = value", s, v, 0),
       St("RS", "receiver_->waker_.Wake()", s, 0, 0),
       St("RS", "receiver_->sender_ = nullptr", s, 0, 0),
       St("RS", "receiver_ = nullptr", s, 0, 0),
       Unlock >>

\* OnceRefSender::Commit()
CommitProg(s) ==
    << LockGuard,
       St("RS", "if (receiver_)", s, 0, 3),
       St("RS", "receiver_->waker_.Wake()", s, 0, 0),
       St("RS", "receiver_->sender_ = nullptr", s, 0, 0),
       St("RS", "receiver_ = nullptr", s, 0, 0),
       Unlock >>

\* OnceRefSender::ModifyUnsafe(func), func the modification k.
ModifyUnsafeProg(s, k) ==
    << LockGuard,
       St("RS", "if (receiver_)", s, 0, 1),
       St("RS", "func(*(receiver_->value_))", s, k, 0),
       Unlock >>

\* Mutant: ModifyUnsafe calling func after the lock_guard's scope has ended.
ModifyUnsafeReentrantProgUnlocked(s) ==
    << LockGuard,
       St("RS", "if (receiver_)", s, 0, 0),
       Unlock >>
    \o CommitProg(s)

\* OnceRefSender::ModifyUnsafe(func), func calling sender.Commit().
ModifyUnsafeReentrantProg(s) ==
    << LockGuard,
       St("RS", "if (receiver_)", s, 0, Len(CommitProg(s))) >>
    \o CommitProg(s) \o << Unlock >>

\* ~OnceRefSender()
DestroyRefSenderProg(s) ==
    << LockGuard,
       St("RS", "if (receiver_)", s, 0, 4),
       St("RS", "receiver_->sender_ = nullptr", s, 0, 0),
       St("RS", "if (!receiver_->waker_.IsEmpty())", s, 0, 2),
       St("RS", "receiver_->cancelled_ = true", s, 0, 0),
       St("RS", "receiver_->waker_.Wake()", s, 0, 0),
       Unlock,
       St("RS", "~", s, 0, 0) >>

\* ~OnceRefReceiver()
DestroyRefReceiverProg(r) ==
    << LockGuard,
       St("RR", "if (sender_)", r, 0, 1),
       St("RR", "sender_->receiver_ = nullptr", r, 0, 0),
       Unlock,
       St("RR", "~", r, 0, 0) >>

\* OnceRefReceiver::Pend()
RefPendProg(r) ==
    << LockGuard,
       St("RR", "if (cancelled_)", r, 0, 1),
       St("RR", "return Ready(Status::Cancelled())", r, 0, 3),
       St("RR", "if (waker_.IsEmpty())", r, 0, 1),
       St("RR", "return Ready(OkStatus())", r, 0, 1),
       St("RR", "return Pending()", r, 0, 0),
       Unlock >>

\* MakeOnceRefSenderAndReceiver(value, waker): no statement of its own takes
\* the lock.
MakeRefProg(s, r, w) ==
    << St("RR", "OnceRefReceiver(value, waker)", Local, w, 0),
       St("RS", "OnceRefSender(receiver)", Local, Local, 0) >>
    \o MoveRefSenderProg(Local, s) \o MoveRefReceiverProg(Local, r)
    \o DestroyRefSenderProg(Local) \o DestroyRefReceiverProg(Local)

\* OnceRefSender<T> sender; OnceRefReceiver<T> receiver;
\* InitializeOnceRefSenderAndReceiver(sender, receiver, value, waker)
InitializeRefProg(s, r, w) ==
    << St("RS", "OnceRefSender()", s, 0, 0),
       St("RR", "OnceRefReceiver()", r, 0, 0),
       LockGuard,
       St("RR", "receiver.sender_ = &sender", r, s, 0),
       St("RR", "receiver.value_ = &value", r, Buffer, 0),
       St("RR", "receiver.cancelled_ = false", r, 0, 0),
       St("RR", "receiver.waker_ = std::move(waker)", r, w, 0),
       St("RS", "sender.receiver_ = &receiver", s, r, 0),
       Unlock >>

\* The statements left after st, the head of todo, has run on heap h.
Rest(h, todo) ==
    LET st == Head(todo)
        k  == IF IsTest(st) THEN (IF Cond(h, st) THEN 0 ELSE st.n) ELSE st.n
    IN  SubSeq(todo, 2 + k, Len(todo))

\* ------------------------------------------------------------- the threads
\* Thread "S" makes the pair and then owns the sender; once the factory has
\* returned, thread "R" owns the receiver.  thr[t]: the member function t is
\* in (op), its statements still to run (todo), what its Pend is about to
\* return (res), and, noted as it acquired the lock: whether a terminal
\* event had released the lock (after), whether none had begun (before); and
\* how many times the call has acquired the lock so far (acq).
\* A thread that has returned is Idle again.

InCall(t) == thr[t].todo # <<>>

\* Thread t calls the member function op, whose statements are prog.
Call(t, op, prog) ==
    /\ ~InCall(t)
    /\ thr' = [thr EXCEPT ![t] = [op |-> op, todo |-> prog, res |-> NoResult,
                                  after |-> FALSE, before |-> FALSE,
                                  acq |-> 0]]
    /\ UNCHANGED <<heapVars, histVars, lock, settled, served, inits>>

Factories == {"Make", "Initialize", "MakeRef", "InitializeRef"}

\* The statement with which op's terminal event begins, if it is one of op.
Delivers(op, st) ==
    \/ st.a \in {"receiver_->value_.emplace(v)", "*(receiver_->value_) = value"}
    \/ op = "Commit" /\ st.a = "receiver_->waker_.Wake()"
Drops(op, st) ==
    \/ op = "~OnceSender" /\ st.a = "receiver_->waker_.Wake()"
    \/ op = "~OnceRefSender" /\ st.a = "receiver_->sender_ = nullptr"

\* Thread t has run the head of its statements; rest are those left, res
\* what it returns.
Advance(t, rest, res) ==
    thr' = [thr EXCEPT ![t] = IF rest = <<>> THEN Idle
                              ELSE [@ EXCEPT !.todo = rest, !.res = res]]

\* std::lock_guard lock(sender_receiver_lock()): t spins until the lock is
\* free.  The lock is not reentrant: t spins on a lock it holds itself.
Acquire(t) ==
    /\ InCall(t) /\ Head(thr[t].todo) = LockGuard
    /\ lock = NoThread
    /\ lock' = t
    /\ thr' = [thr EXCEPT ![t].todo = Tail(@), ![t].after = settled,
                          ![t].before = ~Terminal, ![t].acq = @ + 1]
    /\ UNCHANGED <<heapVars, histVars, settled, served, inits>>

\* The end of the lock_guard's scope.
Release(t) ==
    /\ InCall(t) /\ Head(thr[t].todo) = Unlock
    /\ lock = t
    /\ lock' = NoThread
    /\ settled' = Terminal
    /\ Advance(t, Tail(thr[t].todo), thr[t].res)
    /\ made' = (made \/ (thr[t].op \in Factories /\ Tail(thr[t].todo) = <<>>))
    /\ UNCHANGED <<heapVars, delivered, sentVal, dropped, polled, abandoned,
                   modified, composed, last, served, inits>>

\* Thread t runs its next statement.
Statement(t) ==
    /\ InCall(t)
    /\ LET st   == Head(thr[t].todo)
           rest == Rest(Heap, thr[t].todo)
       IN  /\ st \notin {LockGuard, Unlock}
           /\ HeapBecomes(Exec(Heap, st))
           /\ Advance(t, rest, IF Returned(Heap, st) # NoResult
                                THEN Returned(Heap, st) ELSE thr[t].res)
           /\ made' = (made \/ (thr[t].op \in Factories /\ rest = <<>>))
           /\ delivered' = (delivered \/ Delivers(thr[t].op, st))
           /\ sentVal' = IF Delivers(thr[t].op, st) /\ thr[t].op # "Commit"
                         THEN st.y ELSE sentVal
           /\ dropped' = (dropped \/ Drops(thr[t].op, st))
    /\ UNCHANGED <<abandoned, modified, composed, last, lock, settled,
                   served, inits>>

Step(t) == Statement(t) /\ UNCHANGED polled

\* auto [sender, receiver] = MakeOnceSenderAndReceiver<T>(std::move(waker))
CallMake ==
    \E s \in Slots, r \in Slots :
        ~made /\ thr["S"] = Idle /\ Call("S", "Make", MakeProg(s, r, TaskWaker))

\* InitializeOnceSenderAndReceiver<T>(sender, receiver, std::move(waker))
CallInitialize ==
    \E s \in Slots, r \in Slots :
        ~made /\ thr["S"] = Idle
        /\ Call("S", "Initialize", InitializeProg(s, r, TaskWaker))

\* auto [sender, receiver] = MakeOnceRefSenderAndReceiver<T>(value, std::move(waker))
CallMakeRef ==
    \E s \in Slots, r \in Slots :
        ~made /\ thr["S"] = Idle
        /\ Call("S", "MakeRef", MakeRefProg(s, r, TaskWaker))

\* InitializeOnceRefSenderAndReceiver<T>(sender, receiver, value, std::move(waker))
CallInitializeRef ==
    \E s \in Slots, r \in Slots :
        ~made /\ thr["S"] = Idle
        /\ Call("S", "InitializeRef", InitializeRefProg(s, r, TaskWaker))

\* { OnceSender<T> moved(std::move(sender)); ... }: here, as in the factory,
\* the moved-from object goes out of scope right after the move.
CallMoveSender ==
    \E other \in Slots, this \in Slots :
        made /\ snd[other].live /\ ~snd[this].live
        /\ Call("S", "MoveSender",
                MoveSenderProg(other, this) \o DestroySenderProg(other))

CallEmplace ==
    \E s \in Slots, v \in Payloads :
        made /\ snd[s].live /\ Call("S", "emplace", EmplaceProg(s, v))

CallDestroySender ==
    \E s \in Slots :
        made /\ snd[s].live /\ Call("S", "~OnceSender", DestroySenderProg(s))

CallMoveReceiver ==
    \E other \in Slots, this \in Slots :
        made /\ rcv[other].live /\ ~rcv[this].live
        /\ Call("R", "MoveReceiver",
                MoveReceiverProg(other, this) \o DestroyReceiverProg(other))

CallDestroyReceiver ==
    \E r \in Slots :
        made /\ rcv[r].live /\ Call("R", "~OnceReceiver", DestroyReceiverProg(r))

CallPend ==
    \E r \in Slots :
        made /\ rcv[r].live /\ rcv[r].endpoint /\ Call("R", "Pend", PendProg(r))

CallMoveRefSender ==
    \E other \in Slots, this \in Slots :
        made /\ rsnd[other].live /\ ~rsnd[this].live
        /\ Call("S", "MoveRefSender",
                MoveRefSenderProg(other, this) \o DestroyRefSenderProg(other))

CallSet ==
    \E s \in Slots, v \in Payloads :
        made /\ rsnd[s].live /\ Call("S", "Set", SetProg(s, v))

CallModifyUnsafe ==
    \E s \in Slots, k \in Funcs :
        made /\ rsnd[s].live
        /\ Call("S", "ModifyUnsafe", ModifyUnsafeProg(s, k))

CallModifyUnsafeReentrant ==
    \E s \in Slots :
        made /\ rsnd[s].live
        /\ Call("S", "ModifyUnsafe(reentrant)", ModifyUnsafeReentrantProg(s))

CallCommit ==
    \E s \in Slots :
        made /\ rsnd[s].live /\ Call("S", "Commit", CommitProg(s))

CallDestroyRefSender ==
    \E s \in Slots :
        made /\ rsnd[s].live
        /\ Call("S", "~OnceRefSender", DestroyRefSenderProg(s))

CallMoveRefReceiver ==
    \E other \in Slots, this \in Slots :
        made /\ rrcv[other].live /\ ~rrcv[this].live
        /\ Call("R", "MoveRefReceiver",
                MoveRefReceiverProg(other, this)
                \o DestroyRefReceiverProg(other))

CallDestroyRefReceiver ==
    \E r \in Slots :
        made /\ rrcv[r].live
        /\ Call("R", "~OnceRefReceiver", DestroyRefReceiverProg(r))

CallRefPend ==
    \E r \in Slots :
        made /\ rrcv[r].live /\ rrcv[r].endpoint
        /\ Call("R", "RefPend", RefPendProg(r))

SenderCalls ==
    \/ CallMake
    \/ CallInitialize
    \/ CallMakeRef
    \/ CallInitializeRef
    \/ CallMoveSender
    \/ CallEmplace
    \/ CallDestroySender
    \/ CallMoveRefSender
    \/ CallSet
    \/ CallModifyUnsafe
    \/ CallModifyUnsafeReentrant
    \/ CallCommit
    \/ CallDestroyRefSender

ReceiverCalls ==
    \/ CallMoveReceiver
    \/ CallDestroyReceiver
    \/ CallPend
    \/ CallMoveRefReceiver
    \/ CallDestroyRefReceiver
    \/ CallRefPend

LockNext ==
    \/ SenderCalls
    \/ ReceiverCalls
    \/ \E t \in Threads : Acquire(t)
    \/ \E t \in Threads : Step(t)
    \/ \E t \in Threads : Release(t)

LockSpec == Init /\ [][LockNext]_vars

\* The two threads when no ModifyUnsafe callback calls back into the API.
FairNext ==
    \/ CallMake
    \/ CallInitialize
    \/ CallMakeRef
    \/ CallInitializeRef
    \/ CallMoveSender
    \/ CallEmplace
    \/ CallDestroySender
    \/ CallMoveRefSender
    \/ CallSet
    \/ CallModifyUnsafe
    \/ CallCommit
    \/ CallDestroyRefSender
    \/ ReceiverCalls
    \/ \E t \in Threads : Acquire(t)
    \/ \E t \in Threads : Step(t)
    \/ \E t \in Threads : Release(t)

\* A thread inside a member function runs on (no statement blocks: Wake()
\* does not), and a thread spinning on the lock gets it if it is released
\* again and again (a fair lock).
FairLock ==
    \A t \in Threads : WF_vars(Step(t)) /\ WF_vars(Release(t))
                        /\ SF_vars(Acquire(t))

FairSpec == Init /\ [][FairNext]_vars /\ FairLock

\* ---------------------------------------------------------- the dispatcher
\* The receiver belongs to a task.  The dispatcher polls a task once when it
\* is posted and again after each wake-up: `served` is the number of polls
\* the wake-ups so far have been answered with.  Here the receiver's thread
\* does nothing but run the task.
DispatcherPolls(op, prog) ==
    /\ made
    /\ ~InCall("R")
    /\ served < 1 + wakes
    /\ served' = 1 + wakes
    /\ thr' = [thr EXCEPT !["R"] = [op |-> op, todo |-> prog,
                                    res |-> NoResult,
                                    after |-> FALSE, before |-> FALSE,
                                    acq |-> 0]]
    /\ UNCHANGED <<heapVars, histVars, lock, settled, inits>>

\* A thread runs its next statement; the dispatcher notes that a poll of the
\* task has returned after the terminal event.
TaskStep(t) ==
    /\ Statement(t)
    /\ polled' = (polled \/ (Terminal /\ Returned(Heap, Head(thr[t].todo))
                                            # NoResult))

\* The task polls its OnceReceiver.
DispatchPend ==
    \E r \in Slots :
        rcv[r].live /\ rcv[r].endpoint /\ DispatcherPolls("Pend", PendProg(r))

\* The task polls its OnceRefReceiver.
DispatchRefPend ==
    \E r \in Slots :
        rrcv[r].live /\ rrcv[r].endpoint
        /\ DispatcherPolls("RefPend", RefPendProg(r))

DispNext ==
    \/ CallMake
    \/ CallInitialize
    \/ CallMakeRef
    \/ CallInitializeRef
    \/ CallMoveSender
    \/ CallEmplace
    \/ CallDestroySender
    \/ CallMoveRefSender
    \/ CallSet
    \/ CallModifyUnsafe
    \/ CallCommit
    \/ CallDestroyRefSender
    \/ DispatchPend
    \/ DispatchRefPend
    \/ \E t \in Threads : Acquire(t)
    \/ \E t \in Threads : TaskStep(t)
    \/ \E t \in Threads : Release(t)

\* A thread inside a member function runs on; a thread spinning on the lock
\* gets it if it is released again and again (critical sections are short
\* and never block); the dispatcher polls a task that is due.
DispFairness ==
    /\ \A t \in Threads : WF_vars(TaskStep(t)) /\ WF_vars(Release(t))
                           /\ SF_vars(Acquire(t))
    /\ WF_vars(DispatchPend)
    /\ WF_vars(DispatchRefPend)

DispSpec == Init /\ [][DispNext]_vars /\ DispFairness

\* ================================================================== properties

\* The pair's receiver / sender object, where it is alive.
IsReceiver(r) == rcv[r].live /\ rcv[r].endpoint
IsSender(s) == snd[s].live /\ snd[s].endpoint
IsRefReceiver(r) == rrcv[r].live /\ rrcv[r].endpoint
IsRefSender(s) == rsnd[s].live /\ rsnd[s].endpoint

\* C1. Linkage: a sender's receiver_ designates a receiver exactly when that
\* receiver's sender_ designates the sender, for both channel kinds and at
\* every address (storage without an object holds no link); a link in one
\* direction only never exists.
C1_Linkage ==
    \A s \in Addrs, r \in Addrs :
        /\ (snd[s].receiver_ = r) <=> (rcv[r].sender_ = s)
        /\ (rsnd[s].receiver_ = r) <=> (rrcv[r].sender_ = s)

\* C1 witness: sender and receiver have both been move-constructed (the
\* sender's source is still around) and the pair is linked both ways.
C1_Witness ==
    /\ last.op = "MoveReceiver" /\ last.linked
    /\ \E a \in Slots : snd[a].live /\ ~snd[a].endpoint
    /\ \E s \in Slots, r \in Slots :
          IsSender(s) /\ IsReceiver(r)
          /\ snd[s].receiver_ = r /\ rcv[r].sender_ = s

\* C2. send-then-poll: once emplace(v) took effect on the linked pair, the
\* next Pend on the pair's receiver returns Ready(Ok(v)): the first Pend
\* after the send did, and as long as none has happened a Pend would.
C2_SendThenPoll ==
    /\ (last.op = "Pend" /\ last.first /\ delivered)
          => last.res = ReadyOk(sentVal)
    /\ (delivered /\ ~polled)
          => \A r \in Slots :
                IsReceiver(r) => PendResult(Heap, r) = ReadyOk(sentVal)

\* C2 witness: the first Pend after emplace(MaxVal), on a receiver that was
\* moved after the send, returned Ready(Ok(MaxVal)).
C2_Witness ==
    /\ last.op = "Pend" /\ last.first /\ delivered /\ sentVal = MaxVal
    /\ last.res = ReadyOk(MaxVal)
    /\ \E a \in Slots : rcv[a].live /\ ~rcv[a].endpoint

\* C3. drop-sender-then-poll: the destruction of the still-linked sender of a
\* ValueChannel pair, nothing sent, fires the waker (once) and leaves no
\* receiver with a sender_ link; from then on every Pend on the pair's
\* receiver returns Ready(Err(Cancelled)).
C3_DropSenderThenPoll ==
    /\ (last.op = "~OnceSender" /\ last.linked)
          => /\ wakes = 1 /\ calls = 1
             /\ \A r \in Addrs :
                   rcv[r].sender_ = Null /\ WakerIsEmpty(rcv[r].waker_)
    /\ (dropped /\ last.op = "Pend" /\ last.ep) => last.res = ReadyCancelled
    /\ dropped
          => \A r \in Slots :
                IsReceiver(r) => PendResult(Heap, r) = ReadyCancelled

\* C3 witness: a second Pend after the sender was dropped returned Cancelled.
C3_Witness ==
    /\ dropped /\ last.op = "Pend" /\ last.ep /\ ~last.first
    /\ last.res = ReadyCancelled /\ wakes = 1
\* C4. poll-before-send: a Pend on the receiver of the still linked
\* ValueChannel pair, before any send or sender destruction, returns Pending
\* and changes no receiver, no sender and no waker, which stays non-empty;
\* the terminal event that comes later fires that waker.
C4_PollBeforeSend ==
    [][ /\ (last'.op = "Pend" /\ last'.ep /\ last'.linked /\ ~Terminal)
           => /\ last'.res = Pending
              /\ rcv' = rcv /\ snd' = snd
              /\ wakes' = wakes /\ calls' = calls /\ wakes' = 0
              /\ \E r \in Slots :
                    IsReceiver(r) /\ ~WakerIsEmpty(rcv'[r].waker_)
        /\ (last'.op \in {"emplace", "~OnceSender"} /\ last'.linked)
           => wakes = 0 /\ wakes' = 1
      ]_vars

\* C4 witness: a Pend on the linked receiver returned Pending and the waker
\* is still installed.
C4_Witness ==
    /\ last.op = "Pend" /\ last.ep /\ last.linked /\ ~Terminal
    /\ last.res = Pending /\ wakes = 0
    /\ \E r \in Slots : IsReceiver(r) /\ rcv[r].waker_ = TaskWaker

\* C5. Wake at most once: for either kind of pair the receiving task is woken
\* at most once, and Wake() is invoked on a receiver's waker at most once.
C5_WakeAtMostOnce == wakes <= 1 /\ calls <= 1

\* C5 witness: the waker has fired and a moved-from sender was then destroyed.
C5_Witness ==
    /\ wakes = 1 /\ calls = 1
    /\ last.op = "~OnceSender" /\ ~last.ep /\ ~last.linked

\* C6. Single terminal event: never both delivered and cancelled.  No
\* ValueChannel receiver holds a value when the sender was destroyed while
\* linked, no RefChannel receiver has cancelled_ set when a Set or Commit
\* took effect; a value is only there by a send, cancelled_ only by the
\* destruction of the linked sender.
C6_SingleTerminalEvent ==
    /\ ~(delivered /\ dropped)
    /\ dropped => \A r \in Addrs : ~HasValue(rcv[r].value_)
    /\ delivered => \A r \in Addrs : ~rrcv[r].cancelled_
    /\ (\E r \in Addrs : HasValue(rcv[r].value_)) => delivered
    /\ (\E r \in Addrs : rrcv[r].cancelled_) => dropped

\* C6 witness: the sender was destroyed after its send; the receiver holds
\* the value and nothing was cancelled.
C6_Witness ==
    /\ delivered /\ ~dropped /\ last.op = "~OnceSender" /\ last.ep
    /\ \E r \in Slots : IsReceiver(r) /\ rcv[r].value_ = sentVal

\* C7. After the terminal event (emplace, Set, Commit on the linked pair, or
\* the destruction of the linked sender) every receiver_ and every sender_
\* is null, in every later state.
C7_LinksNullAfterTerminal ==
    Terminal
       => \A a \in Addrs :
             /\ snd[a].receiver_ = Null /\ rcv[a].sender_ = Null
             /\ rsnd[a].receiver_ = Null /\ rrcv[a].sender_ = Null

\* C7 witness: both endpoints are alive after a send, and the receiver has
\* since been moved.
C7_Witness ==
    /\ delivered /\ last.op = "MoveReceiver" /\ last.ep
    /\ \E s \in Slots, r \in Slots : IsSender(s) /\ IsReceiver(r)
\* C8. double-send no-op: an emplace(v2) on the pair's sender after its
\* first emplace(v1) took effect changes no receiver and no sender, fires
\* and invokes no waker, and leaves the pair delivered with v1: a receiver
\* not yet polled still holds v1, and all links are still null.
C8_DoubleSendNoOp ==
    [][ (last'.op = "emplace" /\ last'.ep /\ delivered)
           => /\ rcv' = rcv /\ snd' = snd
              /\ wakes' = wakes /\ calls' = calls
              /\ sentVal' = sentVal /\ ~dropped' /\ ~uaf'
              /\ \A r \in Slots :
                    (rcv'[r].live /\ rcv'[r].endpoint /\ ~polled)
                       => rcv'[r].value_ = sentVal
              /\ \A a \in Addrs :
                    snd'[a].receiver_ = Null /\ rcv'[a].sender_ = Null
      ]_vars

\* C8 witness: a second emplace, of another value than the first, was made
\* while the receiver still holds the first value.
C8_Witness ==
    /\ last.op = "emplace" /\ last.ep /\ ~last.linked /\ delivered
    /\ last.arg # sentVal /\ wakes = 1
    /\ \E r \in Slots : IsReceiver(r) /\ rcv[r].value_ = sentVal

\* C9. Destroying the pair's sender after it completed (emplace; Set or
\* Commit) fires and invokes no waker, cancels nothing and changes no
\* receiver and not the buffer; a Pend on the pair's receiver still reports
\* the delivery.
C9_DestroyCompletedSender ==
    [][ (last'.op \in {"~OnceSender", "~OnceRefSender"} /\ last'.ep
           /\ delivered)
           => /\ wakes' = wakes /\ calls' = calls
              /\ rcv' = rcv /\ rrcv' = rrcv /\ buf' = buf
              /\ ~dropped' /\ ~uaf'
              /\ \A r \in Slots :
                    /\ (rcv'[r].live /\ rcv'[r].endpoint)
                          => /\ PendResult(Heap, r)' = PendResult(Heap, r)
                             /\ PendResult(Heap, r)'.k = "Ok"
                             /\ ~polled => PendResult(Heap, r)' = ReadyOk(sentVal)
                    /\ (rrcv'[r].live /\ rrcv'[r].endpoint)
                          => RefPendResult(Heap, r)' = ReadyOk(0)
      ]_vars

\* C9 witness: the RefChannel sender was destroyed after its Commit or Set
\* and the receiver's Pend reports Ready(Ok).
C9_Witness ==
    /\ last.op = "~OnceRefSender" /\ last.ep /\ delivered /\ ~dropped
    /\ wakes = 1
    /\ \E r \in Slots : IsRefReceiver(r) /\ RefPendResult(Heap, r) = ReadyOk(0)

\* C10. Receiver-destroyed-first: the destruction of the linked ValueChannel
\* receiver clears the sender's receiver_ and fires no waker; after it every
\* emplace on the pair's sender and the sender's destruction, whenever they
\* run, fire and invoke no waker, touch no storage of the destroyed receiver,
\* deliver and cancel nothing, and an emplace leaves the sender as it was.
C10_ReceiverDestroyedFirst ==
    [][ /\ (last'.op = "~OnceReceiver" /\ last'.linked)
           => /\ wakes' = wakes /\ calls' = calls /\ wakes' = 0
              /\ \A s \in Addrs : snd'[s].receiver_ = Null
        /\ (abandoned /\ last'.op \in {"emplace", "~OnceSender"} /\ last'.ep)
           => /\ wakes' = wakes /\ calls' = calls /\ wakes' = 0
              /\ rcv' = rcv /\ ~uaf'
              /\ ~delivered' /\ ~dropped' /\ ~last'.linked
              /\ (last'.op = "emplace" => snd' = snd)
      ]_vars

\* C10 witness: an emplace on the sender whose receiver was destroyed first;
\* no waker fired and no object holds a value.
C10_Witness ==
    /\ abandoned /\ last.op = "emplace" /\ last.ep
    /\ wakes = 0 /\ calls = 0 /\ ~uaf /\ ~delivered
    /\ \A a \in Addrs : ~HasValue(rcv[a].value_)

\* C11. A Pend on the pair's ValueChannel receiver returns
\* Ready(Err(Cancelled)) only after the sender was destroyed while still
\* linked, nothing sent: never while the sender is alive and linked, and
\* never on a pair whose send took effect, polled before or not, moved or not.
C11_CancelledOnlyAfterDrop ==
    /\ (last.op = "Pend" /\ last.ep /\ last.res = ReadyCancelled)
          => dropped /\ ~delivered /\ ~last.linked
    /\ \A r \in Slots :
          (IsReceiver(r) /\ PendResult(Heap, r) = ReadyCancelled)
             => /\ dropped /\ ~delivered
                /\ \A s \in Addrs : ~(snd[s].live /\ snd[s].receiver_ = r)
    /\ delivered
          => \A r \in Slots :
                IsReceiver(r) => PendResult(Heap, r) # ReadyCancelled

\* C11 witness: the moved sender was destroyed with nothing sent, and a Pend
\* on the moved receiver returned Cancelled.
C11_Witness ==
    /\ last.op = "Pend" /\ last.ep /\ last.res = ReadyCancelled
    /\ dropped /\ ~delivered
    /\ \E a \in Slots : rcv[a].live /\ ~rcv[a].endpoint

\* C12. On the pair's ValueChannel receiver Pend returns Ready(Ok(...)) at
\* most once: no Pend after the first Pend that followed the send returns
\* Ready(Ok) again.
C12_OkAtMostOnce ==
    ~(last.op = "Pend" /\ last.ep /\ delivered /\ ~last.first
        /\ last.res.k = "Ok")

\* C13. Move transparency (ValueChannel): in every state the linked pair can
\* reach by moves of its sender and its receiver, in any number and order,
\* emplace(v) on the sender where it now is makes Pend on the receiver where
\* it now is return Ready(Ok(v)), and the destruction of that sender makes it
\* return Ready(Err(Cancelled)), as for the pair the factory returned; the
\* first Pend after the terminal event returned just that, and no move left
\* a link to storage without an object.
C13_MoveTransparency ==
    /\ ~uaf
    /\ \A s \in Slots, r \in Slots :
          (IsSender(s) /\ IsReceiver(r) /\ ~Terminal)
             => /\ \A v \in Payloads :
                      PendResult(Emplace(Heap, s, v), r) = ReadyOk(v)
                /\ PendResult(DestroySender(Heap, s), r) = ReadyCancelled
    /\ (last.op = "Pend" /\ last.first)
          => last.res = IF delivered THEN ReadyOk(sentVal) ELSE ReadyCancelled

\* C13 witness: sender and receiver have both been moved (the objects they
\* were moved out of are still around), the send was made on the moved-to
\* sender and the first Pend on the moved-to receiver returned the value.
C13_Witness ==
    /\ last.op = "Pend" /\ last.first /\ delivered
    /\ last.res = ReadyOk(sentVal)
    /\ \E a \in Slots : snd[a].live /\ ~snd[a].endpoint
    /\ \E a \in Slots : rcv[a].live /\ ~rcv[a].endpoint /\ ~HasValue(rcv[a].value_)

\* Every non-null link of a live object designates a live endpoint of the
\* pair that links back to the object's own address.
NoDanglingLink ==
    \A a \in Addrs :
        /\ (snd[a].live /\ snd[a].receiver_ # Null)
              => /\ IsReceiver(snd[a].receiver_)
                 /\ rcv[snd[a].receiver_].sender_ = a
        /\ (rcv[a].live /\ rcv[a].sender_ # Null)
              => /\ IsSender(rcv[a].sender_)
                 /\ snd[rcv[a].sender_].receiver_ = a
        /\ (rsnd[a].live /\ rsnd[a].receiver_ # Null)
              => /\ IsRefReceiver(rsnd[a].receiver_)
                 /\ rrcv[rsnd[a].receiver_].sender_ = a
        /\ (rrcv[a].live /\ rrcv[a].sender_ # Null)
              => /\ IsRefSender(rrcv[a].sender_)
                 /\ rsnd[rrcv[a].sender_].receiver_ = a

\* All links of all objects are null.
NoLinks ==
    \A a \in Addrs :
        /\ snd[a].receiver_ = Null /\ rcv[a].sender_ = Null
        /\ rsnd[a].receiver_ = Null /\ rrcv[a].sender_ = Null

\* C14. No dangling back-pointer: after every step no live object holds a
\* link to anything but the pair's live peer at its current address, and no
\* member function went through a link to storage without an object.  The
\* move of a linked endpoint leaves the peer's link at the moved-to address
\* and the moved-from object's link null; the destruction of a linked
\* endpoint leaves the survivor's link null, so that the survivor's
\* destructor, whichever endpoint it is, touches no other object.
C14_NoDanglingLink ==
    [][ /\ NoDanglingLink' /\ ~uaf'
        /\ (last'.op \in {"MoveSender", "MoveReceiver", "MoveRefSender",
                          "MoveRefReceiver"} /\ last'.linked)
           => /\ \E s \in Slots, r \in Slots :
                    \/ IsSender(s)' /\ IsReceiver(r)'
                       /\ snd'[s].receiver_ = r /\ rcv'[r].sender_ = s
                    \/ IsRefSender(s)' /\ IsRefReceiver(r)'
                       /\ rsnd'[s].receiver_ = r /\ rrcv'[r].sender_ = s
              /\ \A a \in Addrs :
                    /\ ~snd'[a].endpoint => snd'[a].receiver_ = Null
                    /\ ~rcv'[a].endpoint => rcv'[a].sender_ = Null
                    /\ ~rsnd'[a].endpoint => rsnd'[a].receiver_ = Null
                    /\ ~rrcv'[a].endpoint => rrcv'[a].sender_ = Null
        /\ (last'.op \in {"~OnceSender", "~OnceReceiver", "~OnceRefSender",
                          "~OnceRefReceiver"} /\ last'.linked)
           => NoLinks'
        /\ (last'.op \in {"~OnceSender", "~OnceReceiver", "~OnceRefSender",
                          "~OnceRefReceiver"} /\ last'.ep /\ ~last'.linked)
           => /\ rcv' = rcv \/ last'.op = "~OnceReceiver"
              /\ snd' = snd \/ last'.op = "~OnceSender"
              /\ rrcv' = rrcv \/ last'.op = "~OnceRefReceiver"
              /\ rsnd' = rsnd \/ last'.op = "~OnceRefSender"
      ]_vars

\* C14 witness: the RefChannel receiver was destroyed while linked, and the
\* moved sender, the second endpoint to go, has now been destroyed as well.
C14_Witness ==
    /\ abandoned /\ last.op = "~OnceRefSender" /\ last.ep /\ ~last.linked
    /\ ~uaf /\ wakes = 0
    /\ \E a \in Slots : rsnd[a].live /\ ~rsnd[a].endpoint

\* C15. Factory postcondition: when MakeOnceSenderAndReceiver or
\* MakeOnceRefSenderAndReceiver has returned, the returned sender's receiver_
\* is the address of the returned receiver and that receiver's sender_ the
\* address of the returned sender, the receiver holds the waker, which has
\* not fired, and nothing else; the RefChannel receiver's value_ is the
\* address of the caller's buffer and cancelled_ is false.  The factory's
\* locals are gone and no other object exists.
C15_FactoryPostcondition ==
    /\ last.op = "Make"
          => /\ ~uaf /\ wakes = 0 /\ calls = 0
             /\ \E s \in Slots, r \in Slots :
                   /\ snd = [a \in Addrs |->
                               IF a = s
                               THEN [live |-> TRUE, receiver_ |-> r,
                                     endpoint |-> TRUE]
                               ELSE NoSender]
                   /\ rcv = [a \in Addrs |->
                               IF a = r
                               THEN [live |-> TRUE, sender_ |-> s,
                                     value_ |-> NullOpt, waker_ |-> TaskWaker,
                                     endpoint |-> TRUE]
                               ELSE NoReceiver]
    /\ last.op = "MakeRef"
          => /\ ~uaf /\ wakes = 0 /\ calls = 0 /\ buf = 0
             /\ \E s \in Slots, r \in Slots :
                   /\ rsnd = [a \in Addrs |->
                                IF a = s
                                THEN [live |-> TRUE, receiver_ |-> r,
                                      endpoint |-> TRUE]
                                ELSE NoRefSender]
                   /\ rrcv = [a \in Addrs |->
                                IF a = r
                                THEN [live |-> TRUE, sender_ |-> s,
                                      value_ |-> Buffer, cancelled_ |-> FALSE,
                                      waker_ |-> TaskWaker, endpoint |-> TRUE]
                                ELSE NoRefReceiver]

\* C15 witness: MakeOnceRefSenderAndReceiver has just returned a pair whose
\* sender and receiver sit at different addresses.
C15_Witness ==
    /\ last.op = "MakeRef"
    /\ IsRefSender(1) /\ IsRefReceiver(NumSlots)
    /\ rsnd[1].receiver_ = NumSlots /\ rrcv[NumSlots].sender_ = 1
    /\ rrcv[NumSlots].value_ = Buffer /\ rrcv[NumSlots].waker_ = TaskWaker

\* C16. Ref set: Set(v) on the sender of the linked RefChannel pair assigns v
\* to the caller's buffer, fires the waker, for the first and only time, and
\* clears both links; from then on the buffer equals v, whatever is called,
\* and every Pend on the pair's receiver returns Ready(Ok).
C16_RefSet ==
    [][ /\ (last'.op = "Set" /\ last'.ep /\ last'.linked)
           => /\ buf' = last'.arg /\ sentVal' = last'.arg
              /\ wakes = 0 /\ wakes' = 1 /\ calls' = 1
              /\ NoLinks' /\ ~uaf'
              /\ \A r \in Slots :
                    IsRefReceiver(r)'
                       => /\ RefPendResult(Heap, r)' = ReadyOk(0)
                          /\ rrcv'[r] = [rrcv[r] EXCEPT !.sender_ = Null,
                                                        !.waker_ = EmptyWaker]
        /\ (last.op = "Set" /\ last.ep /\ last.linked) => buf = sentVal
        /\ (delivered /\ buf = sentVal /\ sentVal \in Payloads)
           => /\ buf' = buf /\ sentVal' = sentVal
              /\ \A r \in Slots :
                    IsRefReceiver(r)' => RefPendResult(Heap, r)' = ReadyOk(0)
              /\ (last'.op = "RefPend" /\ last'.ep) => last'.res = ReadyOk(0)
      ]_vars

\* C16 witness: Set(MaxVal) was made on the moved sender after a
\* ModifyUnsafe had left another value in the buffer, and a Pend on the
\* pair's receiver returned Ready(Ok) with the buffer holding MaxVal.
C16_Witness ==
    /\ last.op = "RefPend" /\ last.ep /\ last.res = ReadyOk(0)
    /\ delivered /\ modified /\ sentVal = MaxVal /\ buf = MaxVal
    /\ composed # MaxVal /\ wakes = 1
    /\ \E a \in Slots : rsnd[a].live /\ ~rsnd[a].endpoint

\* C17. Ref modify+commit: a Commit on the sender of the linked RefChannel
\* pair, after any number (none, one, several) of ModifyUnsafe calls, fires
\* the waker, which had not fired before, exactly once; it leaves the buffer
\* as the composition of all the modifications made it, and every Pend on
\* the pair's receiver then returns Ready(Ok).
C17_ModifyThenCommit ==
    [][ /\ (last'.op = "Commit" /\ last'.ep /\ last'.linked)
           => /\ wakes = 0 /\ calls = 0 /\ wakes' = 1 /\ calls' = 1
              /\ buf' = composed' /\ buf' = buf /\ composed' = composed
              /\ (~modified => buf' = 0)
              /\ NoLinks' /\ ~uaf'
              /\ \A r \in Slots :
                    IsRefReceiver(r)' => RefPendResult(Heap, r)' = ReadyOk(0)
        /\ (delivered /\ sentVal = 0)
           => /\ wakes' = 1 /\ calls' = 1 /\ buf' = buf /\ buf' = composed'
              /\ (last'.op = "RefPend" /\ last'.ep) => last'.res = ReadyOk(0)
      ]_vars

\* C17 witness: Commit after at least two ModifyUnsafe calls (one callback
\* alone never leaves 0 in the buffer), then a Pend returning Ready(Ok).
C17_Witness ==
    /\ last.op = "RefPend" /\ last.ep /\ last.res = ReadyOk(0)
    /\ delivered /\ sentVal = 0 /\ modified /\ buf = 0 /\ composed = 0
    /\ wakes = 1 /\ calls = 1

\* C18. ModifyUnsafe does not advance the RefChannel state: on the linked
\* pair it applies the callback to the target buffer and changes nothing
\* else: no sender, no receiver (links, cancelled_, waker_), no wake count,
\* no terminal event; a Pend on the pair's receiver right after it returns
\* Pending, as it did before.
C18_ModifyUnsafeFrame ==
    [][ (last'.op = "ModifyUnsafe" /\ last'.linked)
           => /\ buf' = ApplyFunc(last'.arg, buf)
              /\ rsnd' = rsnd /\ rrcv' = rrcv
              /\ wakes' = wakes /\ calls' = calls /\ wakes' = 0 /\ calls' = 0
              /\ ~uaf' /\ ~Terminal'
              /\ \E s \in Slots, r \in Slots :
                    /\ IsRefSender(s)' /\ IsRefReceiver(r)'
                    /\ rsnd'[s].receiver_ = r /\ rrcv'[r].sender_ = s
                    /\ ~rrcv'[r].cancelled_ /\ rrcv'[r].waker_ = TaskWaker
                    /\ RefPendResult(Heap, r) = Pending
                    /\ RefPendResult(Heap, r)' = Pending
      ]_vars

\* C18 witness: a second ModifyUnsafe on the linked pair has changed the
\* buffer again; the pair is still linked and the waker still installed.
C18_Witness ==
    /\ last.op = "ModifyUnsafe" /\ last.ep /\ last.linked
    /\ buf = 0 /\ composed = 0 /\ wakes = 0 /\ ~Terminal
    /\ \E s \in Slots, r \in Slots :
          /\ IsRefSender(s) /\ IsRefReceiver(r) /\ rsnd[s].receiver_ = r
          /\ rrcv[r].waker_ = TaskWaker

\* C19. Ref cancellation with partial mutation: the destruction of the
\* linked RefChannel sender after one or more ModifyUnsafe calls, without
\* Set or Commit, sets the receiver's cancelled_ and fires the waker, once;
\* the buffer keeps the modifications made, then and ever after, and every
\* Pend on the pair's receiver returns Ready(Cancelled).
C19_RefCancelPartial ==
    [][ /\ (last'.op = "~OnceRefSender" /\ last'.linked /\ modified)
           => /\ wakes = 0 /\ wakes' = 1 /\ calls' = 1
              /\ buf' = buf /\ buf' = composed'
              /\ NoLinks' /\ ~uaf' /\ ~delivered'
              /\ \E r \in Slots : IsRefReceiver(r)'
              /\ \A r \in Slots :
                    IsRefReceiver(r)'
                       => /\ rrcv'[r].cancelled_
                          /\ WakerIsEmpty(rrcv'[r].waker_)
                          /\ RefPendResult(Heap, r)' = ReadyCancelled
        /\ (dropped /\ modified)
           => /\ buf' = buf /\ buf' = composed' /\ wakes' = 1 /\ calls' = 1
              /\ \A r \in Slots :
                    IsRefReceiver(r)'
                       => RefPendResult(Heap, r)' = ReadyCancelled
              /\ (last'.op = "RefPend" /\ last'.ep)
                    => last'.res = ReadyCancelled
      ]_vars

\* C19 witness: the sender was destroyed after ModifyUnsafe calls that left
\* MaxVal in the buffer; the receiver, moved since, was polled and returned
\* Ready(Cancelled), and the buffer still holds MaxVal.
C19_Witness ==
    /\ last.op = "RefPend" /\ last.ep /\ last.res = ReadyCancelled
    /\ dropped /\ modified /\ buf = MaxVal /\ composed = MaxVal /\ wakes = 1
    /\ \E a \in Slots : rrcv[a].live /\ ~rrcv[a].endpoint

\* C20. RefChannel Pend: on the pair's receiver it returns Ready(Ok) only
\* when a Set or Commit consumed the waker with cancelled_ false, and
\* Ready(Cancelled) exactly when the linked sender was destroyed before any
\* Set or Commit; after that destruction cancelled_ is set and the waker is
\* empty as well, and the cancelled_ test wins.
C20_RefPendResult ==
    /\ \A r \in Slots :
          IsRefReceiver(r)
             => /\ RefPendResult(Heap, r) = ReadyOk(0)
                      => /\ delivered /\ ~dropped /\ wakes = 1
                         /\ ~rrcv[r].cancelled_
                         /\ WakerIsEmpty(rrcv[r].waker_)
                /\ RefPendResult(Heap, r) = ReadyCancelled <=> dropped
                /\ dropped
                      => /\ rrcv[r].cancelled_
                         /\ WakerIsEmpty(rrcv[r].waker_)
                /\ RefPendResult(Heap, r) = Pending <=> ~Terminal
    /\ dropped => ~delivered
    /\ (last.op = "RefPend" /\ last.ep)
          => /\ last.res = ReadyOk(0) <=> delivered
             /\ last.res = ReadyCancelled <=> dropped
             /\ last.res = Pending <=> ~Terminal

\* C20 witness: the linked sender was destroyed with nothing set, modified
\* or committed; the receiver has cancelled_ set and an empty waker, and its
\* Pend returned Ready(Cancelled).
C20_Witness ==
    /\ last.op = "RefPend" /\ last.ep /\ last.res = ReadyCancelled
    /\ dropped /\ ~modified /\ ~delivered
    /\ \E r \in Slots :
          IsRefReceiver(r) /\ rrcv[r].cancelled_ /\ WakerIsEmpty(rrcv[r].waker_)

\* The heap before anything is constructed.
EmptyHeap ==
    [snd |-> [a \in Addrs |-> NoSender], rcv |-> [a \in Addrs |-> NoReceiver],
     rsnd |-> [a \in Addrs |-> NoRefSender],
     rrcv |-> [a \in Addrs |-> NoRefReceiver],
     buf |-> 0, wakes |-> 0, calls |-> 0, uaf |-> FALSE]

\* C23. The in-place initializers, applied to default-constructed endpoints,
\* produce the pair the Make function of the same kind returns at the same
\* addresses: the same objects with the same links, waker, target and flags
\* and nothing else, so that every operation from then on finds the state,
\* and gives the result, it does on a freshly made pair.
C23_InitializeAsMake ==
    /\ last.op = "Initialize"
          => /\ \E s \in Slots, r \in Slots :
                   /\ IsSender(s) /\ IsReceiver(r)
                   /\ snd[s].receiver_ = r /\ rcv[r].sender_ = s
                   /\ rcv[r].waker_ = TaskWaker
                   /\ Heap = MakeOnceSenderAndReceiver(EmptyHeap, s, r, TaskWaker)
             /\ <<delivered, dropped, polled, abandoned>>
                   = <<FALSE, FALSE, FALSE, FALSE>>
    /\ last.op = "InitializeRef"
          => /\ \E s \in Slots, r \in Slots :
                   /\ IsRefSender(s) /\ IsRefReceiver(r)
                   /\ rsnd[s].receiver_ = r /\ rrcv[r].sender_ = s
                   /\ rrcv[r].waker_ = TaskWaker
                   /\ Heap = MakeOnceRefSenderAndReceiver(EmptyHeap, s, r,
                                                          Buffer, TaskWaker)
             /\ <<delivered, dropped, polled, abandoned>>
                   = <<FALSE, FALSE, FALSE, FALSE>>

\* C23 witness: InitializeOnceSenderAndReceiver has linked a sender and a
\* receiver at different addresses, the waker installed.
C23_Witness ==
    /\ last.op = "Initialize"
    /\ IsSender(NumSlots) /\ IsReceiver(1)
    /\ snd[NumSlots].receiver_ = 1 /\ rcv[1].sender_ = NumSlots
    /\ rcv[1].waker_ = TaskWaker

\* C24. Move transparency (RefChannel): in every state the linked pair can
\* reach by moves of its sender and its receiver, Set(v) and ModifyUnsafe on
\* the sender where it now is write the caller's buffer, Set and Commit make
\* Pend on the receiver where it now is return Ready(Ok), and the
\* destruction of that sender makes it return Ready(Cancelled); no move
\* leaves a link or a target that is not an object's.  The receiver of a
\* cancelled pair still reports Ready(Cancelled) from wherever it is moved
\* to.
C24_RefMoveTransparency ==
    /\ ~uaf
    /\ \A s \in Slots, r \in Slots :
          (IsRefSender(s) /\ IsRefReceiver(r) /\ ~Terminal)
             => /\ \A v \in Payloads :
                      /\ Set(Heap, s, v).buf = v /\ ~Set(Heap, s, v).uaf
                      /\ RefPendResult(Set(Heap, s, v), r) = ReadyOk(0)
                /\ \A k \in Funcs :
                      /\ ModifyUnsafe(Heap, s, k).buf = ApplyFunc(k, buf)
                      /\ ~ModifyUnsafe(Heap, s, k).uaf
                /\ RefPendResult(Commit(Heap, s), r) = ReadyOk(0)
                /\ RefPendResult(DestroyRefSender(Heap, s), r) = ReadyCancelled
    /\ \A r \in Slots, this \in Slots :
          (IsRefReceiver(r) /\ dropped /\ ~rrcv[this].live)
             => /\ RefPendResult(Heap, r) = ReadyCancelled
                /\ RefPendResult(MoveRefReceiver(Heap, r, this), this)
                      = ReadyCancelled
    /\ (last.op = "RefPend" /\ last.first)
          => last.res = IF delivered THEN ReadyOk(0) ELSE ReadyCancelled

\* C24 witness: the moved-to sender was destroyed, the receiver was moved
\* after that cancellation (the object it was moved out of is still around)
\* and the first Pend, on the moved-to receiver, returned Ready(Cancelled).
C24_Witness ==
    /\ last.op = "RefPend" /\ last.first /\ dropped
    /\ last.res = ReadyCancelled
    /\ \E a \in Slots : rrcv[a].live /\ ~rrcv[a].endpoint /\ rrcv[a].cancelled_

\* The state of the pair: Live until a send, Set or Commit took effect
\* (Delivered), the linked sender was destroyed (Cancelled) or the linked
\* receiver was destroyed (Receiver-Gone).
PairState ==
    IF delivered THEN "Delivered"
    ELSE IF dropped THEN "Cancelled"
    ELSE IF abandoned THEN "Receiver-Gone"
    ELSE "Live"

\* C26. Terminal states are absorbing: once the pair is Delivered, Cancelled
\* or Receiver-Gone no operation on the objects there are (emplace, Set,
\* Commit, ModifyUnsafe, Pend, move, destruction) takes it to another state:
\* no second terminal event is recorded, no waker fires or is invoked, the
\* buffer keeps its content, all links stay null, and every Pend on the
\* pair's receiver returns what the state says: Ready(Ok...) when Delivered,
\* Ready(Cancelled) when Cancelled, also after a Pend that already returned it.
C26_TerminalAbsorbing ==
    [][ (PairState # "Live")
           => /\ PairState' = PairState
              /\ <<delivered', dropped', abandoned'>>
                    = <<delivered, dropped, abandoned>>
              /\ wakes' = wakes /\ calls' = calls /\ buf' = buf
              /\ sentVal' = sentVal /\ ~uaf' /\ NoLinks'
              /\ \A r \in Slots :
                    /\ IsReceiver(r)'
                          => PendResult(Heap, r)'.k
                                = IF delivered THEN "Ok" ELSE "Cancelled"
                    /\ IsRefReceiver(r)'
                          => RefPendResult(Heap, r)'
                                = IF delivered THEN ReadyOk(0)
                                  ELSE ReadyCancelled
              /\ (last'.op \in {"Pend", "RefPend"} /\ last'.ep)
                    => last'.res.k = IF delivered THEN "Ok" ELSE "Cancelled"
      ]_vars

\* C26 witness: on a cancelled ValueChannel pair whose receiver has been
\* moved, a Pend after the one that first returned Ready(Err(Cancelled))
\* returned Ready(Err(Cancelled)) again.
C26_Witness ==
    /\ PairState = "Cancelled" /\ last.op = "Pend" /\ last.ep /\ ~last.first
    /\ polled /\ last.res = ReadyCancelled
    /\ \E a \in Slots : rcv[a].live /\ ~rcv[a].endpoint

\* C27. A second Pend on the pair's ValueChannel receiver, after the Pend
\* that returned Ready(Ok(v)), finds value_ empty and sender_ null and
\* returns Ready(Err(Cancelled)).
C27_SecondPendCancelled ==
    (last.op = "Pend" /\ last.ep /\ delivered /\ ~last.first)
       => /\ last.res = ReadyCancelled
          /\ \A r \in Slots :
                IsReceiver(r)
                   => ~HasValue(rcv[r].value_) /\ rcv[r].sender_ = Null

\* C30. RefChannel sender operations after the pair is unlinked, by the
\* destruction of the receiver or by a completed Set or Commit, are no-ops:
\* every later Set, ModifyUnsafe or Commit on the pair's sender leaves the
\* buffer as it is (the callback is not run), every object as it is, fires
\* and invokes no waker and goes through no link.
C30_UnlinkedRefSenderNoOp ==
    [][ (last'.op \in {"Set", "ModifyUnsafe", "Commit"} /\ last'.ep
           /\ (abandoned \/ delivered))
           => /\ ~last'.linked
              /\ buf' = buf /\ composed' = composed /\ modified' = modified
              /\ wakes' = wakes /\ calls' = calls
              /\ rsnd' = rsnd /\ rrcv' = rrcv /\ ~uaf'
              /\ delivered' = delivered /\ sentVal' = sentVal /\ ~dropped'
      ]_vars

\* C30 witness: the receiver was destroyed while linked, after a
\* ModifyUnsafe had left MaxVal in the buffer; a Set(1) on the sender then
\* changed nothing.
C30_Witness ==
    /\ abandoned /\ last.op = "Set" /\ last.ep /\ last.arg = 1
    /\ modified /\ buf = MaxVal /\ wakes = 0 /\ calls = 0 /\ ~uaf /\ ~delivered

\* A thread is inside the critical section of a Pend: it has acquired the
\* lock and not yet released it.
InPend(t) ==
    /\ thr[t].op \in {"Pend", "RefPend"}
    /\ InCall(t)
    /\ Head(thr[t].todo) # LockGuard

\* What a Pend returns once the terminal event is over.
AfterTerminal(op) ==
    IF delivered
    THEN (IF op = "Pend" THEN ReadyOk(sentVal) ELSE ReadyOk(0))
    ELSE ReadyCancelled

\* C21: with the sender on one thread and the receiver polling on another,
\* in every interleaving a Pend that acquired the lock after the terminal
\* event released it returns Ready (Ok(v) after a send, Cancelled after the
\* destruction of the linked sender) and never Pending; a Pend that returns
\* Pending acquired the lock before the terminal event began; and no Pend
\* runs between the first and the last statement of a terminal event: it
\* never sees a value stored with a link still set, nor a fired waker with
\* the value absent.
C21_Linearization ==
    \A t \in Threads :
        InPend(t) =>
            /\ (thr[t].after /\ thr[t].res # NoResult)
                   => thr[t].res = AfterTerminal(thr[t].op)
            /\ thr[t].res = Pending => thr[t].before
            /\ ~(Terminal /\ ~settled)
            /\ \A r \in Addrs :
                   (rcv[r].live /\ rcv[r].endpoint) =>
                       /\ HasValue(rcv[r].value_) => rcv[r].sender_ = Null
                       /\ (wakes >= 1 /\ delivered) => HasValue(rcv[r].value_)

\* C21 witness: a Pend that acquired the lock after emplace released it is
\* about to return the value sent.
C21_Witness ==
    /\ InPend("R") /\ thr["R"].op = "Pend"
    /\ thr["R"].after /\ delivered
    /\ thr["R"].res = ReadyOk(sentVal)
    /\ ~InCall("S")

\* Thread t spins on the lock while holding it.
SelfDeadlocked(t) ==
    /\ InCall(t)
    /\ Head(thr[t].todo) = LockGuard
    /\ lock = t

\* Thread t is in a ModifyUnsafe callback that calls back into the API:
\* what it has left to run is the callback and the end of ModifyUnsafe.
InCallback(t) ==
    /\ thr[t].op = "ModifyUnsafe(reentrant)"
    /\ Len(thr[t].todo) >= 2
    /\ Len(thr[t].todo) <= Len(CommitProg(Local)) + 1

\* C25: ModifyUnsafe's callback runs with the shared lock held; a callback
\* that calls a channel operation never gets past that operation's
\* lock_guard and blocks there forever; and a thread holding the lock is
\* blocked only in that case: anywhere else the holder has a statement to
\* run.
C25_Reentrancy ==
    [][\A t \in Threads :
           /\ (InCall(t) /\ Head(thr[t].todo).a = "func(*(receiver_->value_))")
                  => lock = t
           /\ InCallback(t) => SelfDeadlocked(t)
           /\ lock = t => (InCall(t) /\ (Head(thr[t].todo) = LockGuard
                                             => InCallback(t)))
           /\ SelfDeadlocked(t) => (thr'[t] = thr[t] /\ lock' = t)]_vars

\* C25 witness: the sender's thread spins in the callback on the lock it
\* holds, and the receiver's thread waits for the same lock.
C25_Witness ==
    /\ SelfDeadlocked("S") /\ InCallback("S")
    /\ InCall("R") /\ Head(thr["R"].todo) = LockGuard

\* The objects, by class and address, whether one exists, and its members
\* declared PW_GUARDED_BY(sender_receiver_lock()).
Objects == {"S", "R", "RS", "RR"} \X Addrs
Live(o) ==
    CASE o[1] = "S" -> snd[o[2]].live
      [] o[1] = "R" -> rcv[o[2]].live
      [] o[1] = "RS" -> rsnd[o[2]].live
      [] OTHER -> rrcv[o[2]].live
GuardedMembers(o) ==
    CASE o[1] = "S" -> << snd[o[2]].receiver_ >>
      [] o[1] = "R" -> << rcv[o[2]].sender_, rcv[o[2]].value_ >>
      [] o[1] = "RS" -> << rsnd[o[2]].receiver_ >>
      [] OTHER -> << rrcv[o[2]].sender_, rrcv[o[2]].value_,
                     rrcv[o[2]].cancelled_ >>

\* The step gives a guarded member of object o a new value.
Mutates(o) == Live(o)' /\ GuardedMembers(o)' # GuardedMembers(o)

\* The step is a statement of a thread that holds the lock.
StepUnderLock == \E t \in Threads : thr'[t] # thr[t] /\ lock = t /\ lock' = t

\* The step is the member initializer list of a private constructor, run by
\* a thread that does not hold the lock.
PrivateConstructors ==
    {"OnceSender(receiver)", "OnceRefSender(receiver)",
     "OnceRefReceiver(value, waker)"}
StepOfPrivateConstructor ==
    \E t \in Threads : /\ thr'[t] # thr[t]
                       /\ InCall(t)
                       /\ Head(thr[t].todo).a \in PrivateConstructors
                       /\ lock # t

\* C28 as claimed: every step that gives a receiver's value/cancelled member
\* or an endpoint's peer link a new value, constructors and factories
\* included, is a statement of a thread holding the shared lock.
C28_MutationUnderLock ==
    [][\A o \in Objects : Mutates(o) => StepUnderLock]_vars

\* C28: every step that gives a value/cancelled member or a peer link of an
\* object that already exists a new value is a statement of a thread holding
\* the shared lock; a member of an object that comes into existence with the
\* step gets a value other than its default only from the member
\* initializer list of a private constructor, run without the lock.
C28_MutationOfConstructedUnderLock ==
    [][\A o \in Objects :
           Mutates(o) => IF Live(o) THEN StepUnderLock
                         ELSE StepOfPrivateConstructor]_vars

\* C28 witness: the factory has set `receiver.sender_ = &sender` on its
\* local receiver and still holds the lock.
C28_Witness ==
    /\ thr["S"].op = "Make" /\ lock = "S"
    /\ rcv[Local].live /\ rcv[Local].sender_ = Local
    /\ snd[Local].live /\ snd[Local].receiver_ = Local

\* Thread t is about to run `std::move(receiver_->waker_).Wake()`.
AtWake(t) == InCall(t) /\ Head(thr[t].todo).a = "receiver_->waker_.Wake()"

\* The value (the buffer) the sender of thread t's statement is linked to
\* already holds v.
Stored(t, v) ==
    LET s == Head(thr[t].todo).x
    IN  IF thr[t].op = "emplace"
        THEN /\ snd[s].receiver_ # Null
             /\ rcv[snd[s].receiver_].value_ = v
        ELSE buf = v

\* With the lock free, a Pend of the pair's receiver returns Ready.
PendIsReady ==
    /\ \A r \in Addrs : (rcv[r].live /\ rcv[r].endpoint)
                            => PendResult(Heap, r) # Pending
    /\ \A r \in Addrs : (rrcv[r].live /\ rrcv[r].endpoint)
                            => RefPendResult(Heap, r) # Pending

\* C29: Wake() is called only by a thread that holds the shared lock and
\* still holds it afterwards; in emplace and Set the value sent is already
\* in the receiver's value_ (in the buffer) when Wake() is called; and in
\* every state in which the task has been woken and the lock is free, a Pend
\* of the pair's receiver returns Ready.
C29_WakeInsideLockAfterStore ==
    [][/\ calls' # calls =>
              \E t \in Threads :
                  /\ thr'[t] # thr[t]
                  /\ AtWake(t)
                  /\ lock = t /\ lock' = t
                  /\ thr[t].op \in {"emplace", "Set"}
                         => (delivered /\ Stored(t, sentVal))
       /\ (wakes' >= 1 /\ lock' = NoThread) => PendIsReady']_vars

\* C29 witness: emplace has stored the value and fired the waker and still
\* holds the lock, while the receiver's thread waits at Pend's lock_guard.
C29_Witness ==
    /\ thr["S"].op = "emplace" /\ lock = "S"
    /\ wakes = 1 /\ delivered
    /\ Head(thr["S"].todo).a = "receiver_->sender_ = nullptr"
    /\ thr["R"].op = "Pend" /\ Head(thr["R"].todo) = LockGuard

\* C22: once the sender has sent or a linked sender has been destroyed, the
\* receiver's task, run by a dispatcher that polls it when posted and again
\* after each wake-up, eventually has a Pend return, and that Pend and every
\* later one returns Ready, never Pending; the terminal event has fired the
\* waker by the time it releases the lock.
C22_NoLostWakeup ==
    /\ Terminal ~> polled
    /\ [](settled => wakes = 1)
    /\ [][\A t \in Threads :
              (/\ Terminal /\ InCall(t) /\ thr'[t] # thr[t]
               /\ Returned(Heap, Head(thr[t].todo)) # NoResult)
                  => thr'[t].res \notin {Pending, NoResult}]_vars

\* C22 witness: the task was polled before the terminal event and got
\* Pending, the sender's destruction fired the waker, and the second poll,
\* due to that wake-up, is about to return Ready(Cancelled).
C22_Witness ==
    /\ dropped /\ wakes = 1 /\ served = 2
    /\ InPend("R") /\ thr["R"].res = ReadyCancelled

\* Every call ends, the lock is free whenever no call is in progress, a
\* thread never reaches a lock_guard while it holds the lock, and while it
\* holds the lock the next lock statement on its path is the end of the
\* lock_guard's scope.
RECURSIVE NextLockStatement(_)
NextLockStatement(todo) ==
    IF todo = <<>> THEN St("-", "none", 0, 0, 0)
    ELSE IF Head(todo) \in {LockGuard, Unlock} THEN Head(todo)
    ELSE NextLockStatement(Tail(todo))

Terminates ==
    /\ \A t \in Threads : InCall(t) ~> ~InCall(t)
    /\ []((\A t \in Threads : ~InCall(t)) => lock = NoThread)
    /\ [](\A t \in Threads :
              /\ lock = t => NextLockStatement(thr[t].todo) = Unlock
              /\ (InCall(t) /\ lock # t)
                     => NextLockStatement(thr[t].todo) # Unlock)

\* The step with which thread t returns from its call.
Returns(t) == InCall(t) /\ ~InCall(t)'

\* C31 as claimed: with no re-entering callback and a fair lock, every
\* operation, make included, acquires the lock once, releases it on every
\* path and terminates.  (A move here is the move constructor followed by the
\* source's destructor, two operations, and is left out of the count.)
Moves == {"MoveSender", "MoveReceiver", "MoveRefSender", "MoveRefReceiver"}
C31_EveryOperationLocksOnce ==
    /\ Terminates
    /\ [][\A t \in Threads :
              (Returns(t) /\ thr[t].op \notin Moves) => thr[t].acq = 1]_vars

\* How many member functions, each with one lock_guard, a call runs: the
\* factories run the move constructors and the destructors of their locals.
LockGuards(op) ==
    CASE op = "Make" -> 5
      [] op = "MakeRef" -> 4
      [] op \in Moves -> 2
      [] OTHER -> 1

\* C31: with no re-entering callback and a fair lock, every call
\* terminates, the lock is free whenever no call is in progress, no
\* lock_guard is reached with the lock held and every path leads to the end
\* of the guard's scope; every member function and initializer acquires the
\* lock once, MakeOnceSenderAndReceiver five times and
\* MakeOnceRefSenderAndReceiver four times, one after the other.
C31_DeadlockFree ==
    /\ Terminates
    /\ [][\A t \in Threads :
              Returns(t) => thr[t].acq = LockGuards(thr[t].op)]_vars

\* C31 witness: emplace and Pend contend: the sender's thread holds the lock
\* in emplace, acquired once, while the receiver's thread spins at Pend's
\* lock_guard.
C31_Witness ==
    /\ thr["S"].op = "emplace" /\ lock = "S" /\ thr["S"].acq = 1
    /\ thr["R"].op = "Pend" /\ Head(thr["R"].todo) = LockGuard

\* The operations of a sender other than its move.
SenderOps ==
    {"emplace", "~OnceSender", "Set", "ModifyUnsafe", "Commit",
     "~OnceRefSender"}

\* C32: an emplace, Set, ModifyUnsafe or Commit on a moved-from sender, and
\* the destruction of a moved-from sender, fires no waker, calls no Wake(),
\* records no delivery and no cancellation, and leaves the buffer, every
\* receiver and the moved-to sender as they were.
C32_MovedFromSenderInert ==
    [][(last'.op \in SenderOps /\ ~last'.ep) =>
           /\ wakes' = wakes /\ calls' = calls /\ uaf' = uaf
           /\ delivered' = delivered /\ dropped' = dropped
           /\ buf' = buf /\ rcv' = rcv /\ rrcv' = rrcv
           /\ \A a \in Addrs : /\ snd[a].endpoint => snd'[a] = snd[a]
                               /\ rsnd[a].endpoint => rsnd'[a] = rsnd[a]]_vars

\* C32 witness: a moved-from OnceRefSender has just been destroyed and the
\* pair is still linked, nothing delivered, nothing cancelled.
C32_Witness ==
    /\ last.op = "~OnceRefSender" /\ ~last.ep
    /\ ~Terminal /\ wakes = 0
    /\ \E s \in Slots, r \in Slots :
           /\ IsRefSender(s) /\ IsRefReceiver(r)
           /\ rsnd[s].receiver_ = r /\ rrcv[r].sender_ = s

\* C33: when a OnceReceiver holding the value v is move-constructed into a
\* new object, Pend on the new object returns Ready(Ok(v)), the moved-from
\* object has no value and a null link and its Pend returns
\* Ready(Cancelled); and at no time do two receiver objects hold a value.
C33_MoveCarriesValue ==
    [][/\ last'.op = "MoveReceiver" =>
              \A other \in Slots, this \in Slots :
                  (/\ rcv[other].live /\ ~rcv[this].live
                   /\ rcv[other].value_ \in Payloads
                   /\ Heap' = MoveReceiver(Heap, other, this))
                  => /\ PendResult(Heap', this) = ReadyOk(rcv[other].value_)
                     /\ rcv'[other].value_ = NullOpt
                     /\ rcv'[other].sender_ = Null
                     /\ PendResult(Heap', other) = ReadyCancelled
       /\ \A a \in Addrs, b \in Addrs :
              (HasValue(rcv'[a].value_) /\ HasValue(rcv'[b].value_)) => a = b
      ]_vars

\* C33 witness: the value was sent and, before any Pend, the receiver was
\* moved: the moved-to receiver holds it, the moved-from one is empty.
C33_Witness ==
    /\ last.op = "MoveReceiver" /\ last.ep
    /\ delivered /\ ~polled
    /\ \E this \in Slots, other \in Slots :
           /\ IsReceiver(this) /\ rcv[this].value_ = sentVal
           /\ rcv[other].live /\ ~rcv[other].endpoint
           /\ rcv[other].value_ = NullOpt

\* C34: Pend on a OnceRefReceiver object that is not the receiver of the
\* pair (its state was moved away, or it was default-constructed) returns
\* Ready(Ok) only if a Set or Commit was performed.
C34_UnpairedRefReceiverNeverOk ==
    \A r \in Slots :
        (/\ rrcv[r].live /\ ~rrcv[r].endpoint
         /\ RefPendResult(Heap, r) = ReadyOk(0))
        => delivered

\* C35: once the OnceRefSender of a linked pair has been destroyed without
\* Set or Commit, Pend on the pair's receiver returns Ready(Cancelled),
\* whatever waker the pair was made with.
C35_CancelledWhateverTheWaker ==
    \A r \in Slots :
        (IsRefReceiver(r) /\ dropped /\ ~delivered)
        => RefPendResult(Heap, r) = ReadyCancelled

\* C36: after InitializeOnceSenderAndReceiver or
\* InitializeOnceRefSenderAndReceiver has been applied to objects that exist
\* already, no live object's link designates an object that does not link
\* back to it.
C36_ReinitKeepsLinkage ==
    last.op \in {"Reinitialize", "ReinitializeRef"} =>
        \A a \in Addrs :
            /\ (snd[a].live /\ snd[a].receiver_ # Null)
                   => rcv[snd[a].receiver_].sender_ = a
            /\ (rcv[a].live /\ rcv[a].sender_ # Null)
                   => snd[rcv[a].sender_].receiver_ = a
            /\ (rsnd[a].live /\ rsnd[a].receiver_ # Null)
                   => rrcv[rsnd[a].receiver_].sender_ = a
            /\ (rrcv[a].live /\ rrcv[a].sender_ # Null)
                   => rsnd[rrcv[a].sender_].receiver_ = a

\* C37: right after InitializeOnceSenderAndReceiver has been applied to an
\* existing receiver (last.arg), with no send and no destruction since, Pend
\* on that receiver returns Pending, whatever value_ held before; and so
\* does Pend on a OnceRefReceiver after InitializeOnceRefSenderAndReceiver.
C37_ReinitStartsFresh ==
    /\ last.op = "Reinitialize" => PendResult(Heap, last.arg) = Pending
    /\ last.op = "ReinitializeRef" => RefPendResult(Heap, last.arg) = Pending

====
